---- MODULE Spec2Model ----
(***************************************************************************)
(* State-machine model of the client request handlers of                   *)
(* src/server/game/Handlers/SpellHandler.cpp (class WorldSession).         *)
(*                                                                         *)
(* One session and its player are modelled.  Every handler is one action:  *)
(* the session processes one request to completion before the next.  The   *)
(* only deferred work is the wrapped-item lookup, whose continuation is a  *)
(* separate action taken after the database has answered.                  *)
(*                                                                         *)
(* The variable ev holds the calls with an outside effect (packets sent,   *)
(* log lines, calls into other subsystems) made by the last step, in the   *)
(* order the handler makes them; req names the last step and its inputs.   *)
(***************************************************************************)
EXTENDS Integers, Sequences, FiniteSets, Bags, TLC

VARIABLES
    loggedIn,     \* the session has a player (GetPlayer() != nullptr)
    alive,        \* Player::IsAlive
    mover,        \* Player::GetUnitBeingMoved: "self", "vehicle" or "player2"
    inv,          \* inventory: position -> item guid, 0 for an empty slot
    items,        \* item guid -> the Item instance
    gifts,        \* table character_gifts: item guid -> gift record
    storedLoot,   \* sLootItemStorage: item guid -> stored loot
    pending,      \* _queryProcessor: the bag of wrapped-item lookups in flight
    dbQueue,      \* transactions committed by the session, not yet executed
    m_SummonSlot, \* Unit::m_SummonSlot of the player: slot -> creature guid, 0 for none
    inWorld,      \* the creatures ObjectAccessor::GetCreature finds
    m_currentSpells, \* Unit::m_currentSpells: unit -> cast slot -> the active cast
    m_ownedAuras, \* the auras on the player: a set of <<spell id, caster guid>>
    SelfResSpells, \* ActivePlayerData::SelfResSpells: the granted self-resurrection spells
    selfResCasts, \* history: spell id -> self-resurrection casts since its last grant
    inCombat,     \* Unit::IsInCombat of the player
    inArena,      \* Player::InArena
    onVehicle,    \* the player rides the unit it moves (Unit::IsOnVehicle(mover))
    mounted,      \* Unit::IsMounted of the player
    isPossessing, \* Unit::isPossessing of the player
    pets,         \* the creatures the player commands: GetGuardianPet, GetCharmed,
                  \* and IsAlive and the auras of each creature
    m_castId,     \* the casts created so far: the source of Spell::m_castId
    req,          \* the last step and its inputs
    ev            \* the outside calls of the last step, in order

playerVars == <<loggedIn, alive, mover>>
itemVars == <<inv, items, gifts, storedLoot, pending, dbQueue>>
totemVars == <<m_SummonSlot, inWorld>>
castVars == <<m_currentSpells, m_ownedAuras>>
resVars == <<SelfResSpells, selfResCasts>>
fightVars == <<inCombat, inArena>>
ctrlVars == <<onVehicle, mounted, isPossessing, pets>>
\* what opening an item leaves alone
notItemVars == <<totemVars, castVars, resVars, fightVars, ctrlVars, m_castId>>
\* what the summon subsystem leaves alone
notTotemVars == <<itemVars, castVars, resVars, fightVars, ctrlVars, m_castId>>
\* what the cancel handlers leave alone
notCastVars == <<itemVars, totemVars, resVars, fightVars, ctrlVars, m_castId>>
\* what self-resurrection leaves alone
notResVars == <<itemVars, totemVars, castVars, fightVars, ctrlVars, m_castId>>
vars ==
    <<loggedIn, alive, mover, inv, items, gifts, storedLoot, pending, dbQueue,
      m_SummonSlot, inWorld, m_currentSpells, m_ownedAuras, SelfResSpells,
      selfResCasts, inCombat, inArena, onVehicle, mounted, isPossessing, pets,
      m_castId, req, ev>>

----------------------------------------------------------------------------
(* Bounds of the model *)

\* equipment slots of the player (Item::IsEquipped holds there)
NumEquipSlots == 1
\* backpack slots of the player
NumPackSlots == 2
\* wrapped-item lookups in flight at once
MaxPending == 2
\* transactions committed and not yet executed by the database at once
MaxDbQueue == 1

----------------------------------------------------------------------------
(* Constants of the program *)

\* the pet slot of Unit::m_SummonSlot
SUMMON_SLOT_PET == 0
\* the first totem slot of Unit::m_SummonSlot
SUMMON_SLOT_TOTEM == 1
\* the end of the totem slots
MAX_TOTEM_SLOT == 5
\* the length of Unit::m_SummonSlot
MAX_SUMMON_SLOT == 7
\* the values of a uint8
UINT8_COUNT == 256

----------------------------------------------------------------------------
(* Identities and positions *)

\* The units the session's mover may be: the player itself, a vehicle it
\* controls, another player it controls
Units == {"self", "vehicle", "player2"}

\* Unit::GetTypeId() == TYPEID_PLAYER
IsPlayer(unit) == unit \in {"self", "player2"}

\* ObjectGuid of the player, and of another unit
PlayerGuid == 1
OtherGuid == 2

\* The item instances of the world: a gift and a container
Guids == {1, 2}

EquipPositions == {<<"equipment", i>> : i \in 1..NumEquipSlots}
PackPositions == {<<"backpack", i>> : i \in 1..NumPackSlots}
Positions == EquipPositions \cup PackPositions

\* Item::IsEquipped, for the item at position pos
IsEquipped(pos) == pos[1] = "equipment"

\* Player::GetItemByPos(bag, slot): the item there, 0 for none
GetItemByPos(bag, slot) == IF <<bag, slot>> \in Positions THEN inv[<<bag, slot>>] ELSE 0

\* Item::GetPos of the item with this guid (the item is in the inventory)
GetPos(guid) == CHOOSE p \in Positions : inv[p] = guid

----------------------------------------------------------------------------
(* Item templates (ItemTemplate) and locks (sLockStore): data of the world *)

Entries == 1..10

LootTable(entry) ==
    CASE entry = 1 -> {"gem"}
      [] entry = 2 -> {"gem"}
      [] OTHER -> {}

Template(entry) ==
    CASE entry = 1 -> \* a chest
           [HasLoot |-> TRUE, LockID |-> 0, MinMoneyLoot |-> 0, MaxMoneyLoot |-> 1,
            MaxDurability |-> 0, NonEquip |-> TRUE]
      [] entry = 2 -> \* a lockbox with a known lock
           [HasLoot |-> TRUE, LockID |-> 1, MinMoneyLoot |-> 0, MaxMoneyLoot |-> 0,
            MaxDurability |-> 0, NonEquip |-> TRUE]
      [] entry = 3 -> \* a lockbox whose lock has no definition
           [HasLoot |-> TRUE, LockID |-> 2, MinMoneyLoot |-> 0, MaxMoneyLoot |-> 0,
            MaxDurability |-> 0, NonEquip |-> TRUE]
      [] entry = 4 -> \* a weapon
           [HasLoot |-> FALSE, LockID |-> 0, MinMoneyLoot |-> 0, MaxMoneyLoot |-> 0,
            MaxDurability |-> 50, NonEquip |-> FALSE]
      [] entry = 8 -> \* a trinket
           [HasLoot |-> FALSE, LockID |-> 0, MinMoneyLoot |-> 0, MaxMoneyLoot |-> 0,
            MaxDurability |-> 0, NonEquip |-> FALSE]
      [] OTHER -> \* wrapping paper (5), and the items of UseTemplate
           [HasLoot |-> FALSE, LockID |-> 0, MinMoneyLoot |-> 0, MaxMoneyLoot |-> 0,
            MaxDurability |-> 0, NonEquip |-> TRUE]

\* What using an item looks at in its template:
\*   4  a weapon with an on-use effect      6  a potion that binds when acquired
\*   7  conjured water, allowed in arenas   8  a trinket that binds when used
\*   9  a scripted quest item, banned in arenas, whose effect spell is unknown
\*   10 food, not to be eaten in combat
UseTemplate(entry) ==
    [Consumable |-> entry \in {6, 7, 10},
     IGNORE_DEFAULT_ARENA_RESTRICTIONS |-> entry = 7,
     NOT_USEABLE_IN_ARENA |-> entry = 9,
     Bonding |-> CASE entry = 8 -> "BIND_ON_USE"
                   [] entry = 9 -> "BIND_QUEST"
                   [] entry = 6 -> "BIND_ON_ACQUIRE"
                   [] entry = 4 -> "BIND_ON_EQUIP"
                   [] OTHER -> "BIND_NONE",
     Effects |-> CASE entry \in {4, 6, 8} -> {4}
                   [] entry \in {7, 10} -> {12}
                   [] entry = 9 -> {8}
                   [] OTHER -> {},
     Scripted |-> entry = 9]

\* sLockStore.LookupEntry(lockId) != nullptr
LockKnown(lockId) == lockId = 1

\* Item flags (ItemFieldFlags) are a set of names
IsWrapped(item) == "WRAPPED" \in item.flags
IsLocked(item) == "UNLOCKED" \notin item.flags
IsSoulBound(item) == "SOULBOUND" \in item.flags

----------------------------------------------------------------------------
(* Loot *)

NoLoot == [present |-> FALSE, gold |-> 0, contents |-> {}]

MkLoot(gold, contents) == [present |-> TRUE, gold |-> gold, contents |-> contents]

\* Loot::unlootedCount
UnlootedCount(loot) == Cardinality(loot.contents)

----------------------------------------------------------------------------
(* Events and requests: records of one shape *)

\* What a call about a cast carries: the caster and the two cast ids
NoCastInfo == [caster |-> "", ClientCastID |-> 0, ServerCastID |-> 0]

Ev(e, code, guid, loot) ==
    [e |-> e, code |-> code, guid |-> guid, loot |-> loot, cast |-> NoCastInfo]

\* A call about a cast of spell id with trigger flags flag
CastEv(e, flag, id, caster, client, server) ==
    [e |-> e, code |-> flag, guid |-> id, loot |-> NoLoot,
     cast |-> [caster |-> caster, ClientCastID |-> client, ServerCastID |-> server]]

SendEquipError(code, guid) == Ev("SendEquipError", code, guid, NoLoot)
LogError(what, guid) == Ev("TC_LOG_ERROR", what, guid, NoLoot)
LogInfo(what) == Ev("TC_LOG_INFO", what, 0, NoLoot)

NoResult == [found |-> FALSE, entry |-> 0, flags |-> {}]

\* What a cast request carries besides its spell and target
NoCastData == [MoveUpdate |-> FALSE, CastID |-> 0]

Req(op, pos, guid, result) ==
    [op |-> op, pos |-> pos, guid |-> guid, result |-> result, cast |-> NoCastData]

\* A cast-spell request: the spell, the target, the movement update, the cast id
CastReq(SpellID, target, MoveUpdate, CastID) ==
    [op |-> "CastSpell", pos |-> target, guid |-> SpellID, result |-> NoResult,
     cast |-> [MoveUpdate |-> MoveUpdate, CastID |-> CastID]]

NoPos == <<"none", 0>>

Has(events, e) == \E i \in 1..Len(events) : events[i].e = e

----------------------------------------------------------------------------
(* The spell registry (sSpellMgr) and the casts of a unit *)

\* The spell ids a request may name; UnknownSpell has no SpellInfo
SpellIds == 1..37
UnknownSpell == 8

\* SpellMgr::GetSpellInfo: the attributes of a spell the handlers test
\*   1, 3  channeled spells           2  a channeled spell that cannot be cancelled
\*   4     a buff                     5  a harmful aura
\*   6     a passive aura             7  a buff that cannot be cancelled
\*   9     a self-resurrection        10 one that bypasses resurrection prevention
\*   11    an aura that prevents resurrection
\*   12    drinking, not to be used in combat
\*   13    an aura that using an item interrupts
\*   14    an aura that lets the client trigger spell 26
\*   15    an aura that makes the player cast 17 in place of 16
\*   16    a spell with overrides       17 a passive spell
\*   18    what a vehicle casts in place of 16
\*   19    the ability of a vehicle     20 the rank of 4 for low targets
\*   21    the spell that opens game object 1
\*   22    an auto-repeat ranged spell  23 a spell the player does not know
\*   24    a raid marker by attribute   25 a raid marker by effect
\*   26    the spell aura 14 triggers
\*   27    a second auto-repeat spell
\*   28    a spell a player casts as the buff 4
\*   30-33 change of scale: a buff, a curse, a passive one, one that cannot be cancelled
\*   34-35 mounts: one that can be cancelled, one that cannot
\*   36-37 speed without control: a buff, a curse
SpellInfo(id) ==
    [Id |-> id,
     known |-> id # UnknownSpell,
     NO_AURA_CANCEL |-> id \in {2, 7, 33, 35},
     IsChanneled |-> id \in {1, 2, 3},
     IsPositive |-> id \notin {5, 11, 31, 37},
     IsPassive |-> id \in {6, 17, 32},
     IsAutoRepeatRangedSpell |-> id \in {22, 27},
     RAID_MARKER |-> id = 24,
     CHANGE_RAID_MARKER |-> id = 25,
     TriggerFromClient |-> IF id = 14 THEN 26 ELSE 0,
     AuraType |-> CASE id \in 30..33 -> "SPELL_AURA_MOD_SCALE"
                    [] id \in 34..35 -> "SPELL_AURA_MOUNTED"
                    [] id \in 36..37 -> "SPELL_AURA_MOD_SPEED_NO_CONTROL"
                    [] OTHER -> "SPELL_AURA_OTHER",
     BYPASS_NO_RESURRECT_AURA |-> id = 10,
     PREVENT_RESURRECTION |-> id = 11,
     CanBeUsedInCombat |-> id # 12,
     InterruptOnItemUse |-> id = 13]

\* The spells that may be granted for self-resurrection
SelfResIds == {UnknownSpell, 9, 10}

\* Player::HasActiveSpell: the spells the player knows
HasActiveSpell(id) == id \in {1, 3, 4, 6, 16, 22, 28}

\* Creature::HasSpell, for the unit the player may move
CreatureHasSpell(id) == id = 19

\* SpellInfo::CheckVehicle(_player) == SPELL_CAST_OK: the spells a passenger
\* may cast
CheckVehicleOk(id) == id \in {4, 16, 22, 23}

\* Unit::GetCastSpellInfo: the spell the caster casts in place of this one
GetCastSpellInfo(caster, id) ==
    IF id = 28 THEN (IF IsPlayer(caster) THEN 4 ELSE id)
    ELSE IF id # 16 THEN id
    ELSE IF caster = "vehicle" THEN 18
    ELSE IF \E a \in m_ownedAuras : a[1] = 15 THEN 17
    ELSE id

\* Unit::HasAuraTypeWithTriggerSpell(SPELL_AURA_PERIODIC_TRIGGER_SPELL_FROM_CLIENT, id),
\* for the player
HasAuraTypeWithTriggerSpell(id) ==
    \E a \in m_ownedAuras : SpellInfo(a[1]).TriggerFromClient = id

\* The units a cast may name as its target: nobody, a unit of the level of
\* the player, a unit of low level
UnitTargets == {0, OtherGuid, 3}

\* SpellInfo::GetAuraRankForLevel(target->GetLevelForTarget(caster)): the
\* rank of the spell for the target; 0 when the spell has ranks and none fits
GetAuraRankForLevel(id, target) ==
    IF id # 4 THEN id
    ELSE IF target = 3 THEN 20
    ELSE 0

\* The game objects: 1 a locked chest, 2 an object used from the saddle,
\* 3 an object out of reach
GameObjects == {1, 2, 3}

\* Player::GetGameObjectIfCanInteractWith, SpellCastTargets::GetGOTarget:
\* the object if it is there, else 0
GetGameObject(guid) == IF guid \in {1, 2} THEN guid ELSE 0

\* GameObject::GetSpellForLock(player): the spell that opens the object
GetSpellForLock(go) == IF go = 1 THEN 21 ELSE 0

\* GameObjectTemplate::IsUsableMounted
IsUsableMounted(go) == go = 2

\* GameObjectAI::OnReportUse: a script takes the report
OnReportUse(go) == go = 2

\* Player::IsOnVehicle(mover)
IsOnVehicle == onVehicle /\ mover = "vehicle"

\* sSpellMgr->GetSpellInfo(id) != nullptr
GetSpellInfo(id) == SpellInfo(id).known

\* enum CurrentSpellTypes
CurrentSpellTypes ==
    {"CURRENT_GENERIC_SPELL", "CURRENT_CHANNELED_SPELL", "CURRENT_AUTOREPEAT_SPELL"}

\* An empty cast slot, and a cast of a spell at a target
NoSpell == [Id |-> 0, target |-> 0]
MkSpell(id, target) == [Id |-> id, target |-> target]

\* Unit::GetCurrentSpell
GetCurrentSpell(unit, type) == m_currentSpells[unit][type]

\* Unit::InterruptSpell: the cast in the slot is cancelled and the slot emptied
InterruptSpell(unit, type) ==
    m_currentSpells' = [m_currentSpells EXCEPT ![unit][type] = NoSpell]

\* Unit::RemoveOwnedAura(spellId, casterGUID, 0, mode): the auras of the spell
\* go, those of the given caster only when a caster is given
RemoveOwnedAura(spellId, casterGUID) ==
    m_ownedAuras' = {a \in m_ownedAuras :
                        ~(a[1] = spellId /\ (casterGUID = 0 \/ a[2] = casterGUID))}

----------------------------------------------------------------------------
(* The database (CharacterDatabase) *)

NoGift == [present |-> FALSE, entry |-> 0, flags |-> {}]

\* The rows CHAR_SEL_CHARACTER_GIFT_BY_ITEM returns for an item: entry and flags
GiftRecords ==
    {[present |-> TRUE, entry |-> 4, flags |-> {}],
     [present |-> TRUE, entry |-> 1, flags |-> {"WRAPPED"}]}

\* The rows the table may hold for an item when the requests start: the first gift may
\* have lost its row, or have a row whose flags still say wrapped
StartGifts(g) ==
    IF g = 1 THEN GiftRecords \cup {NoGift} ELSE {[present |-> TRUE, entry |-> 4, flags |-> {}]}

Stmt(name, guid) == [stmt |-> name, guid |-> guid]

\* The database answers a lookup in flight: the row of the item, or none
DbExecuteQuery(c) ==
    /\ BagIn(c, pending)
    /\ ~c.done
    /\ pending' = (pending (-) SetToBag({c}))
                     (+) SetToBag({[c EXCEPT !.done = TRUE,
                                             !.result = [found |-> gifts[c.itemGuid].present,
                                                         entry |-> gifts[c.itemGuid].entry,
                                                         flags |-> gifts[c.itemGuid].flags]]})
    /\ req' = Req("DbExecuteQuery", NoPos, 0, NoResult)
    /\ ev' = <<>>
    /\ UNCHANGED <<playerVars, inv, items, gifts, storedLoot, dbQueue, notItemVars>>

\* The gift table after the statements of one transaction
ApplyStatements(table, trans) ==
    [g \in Guids |->
        IF \E k \in 1..Len(trans) : trans[k] = Stmt("CHAR_DEL_GIFT", g) THEN NoGift ELSE table[g]]

\* The database executes the oldest committed transaction, all of it or (ok = FALSE,
\* the transaction fails and is rolled back) none of it
DbExecuteTransaction(ok) ==
    /\ dbQueue # <<>>
    /\ gifts' = IF ok THEN ApplyStatements(gifts, Head(dbQueue)) ELSE gifts
    /\ dbQueue' = Tail(dbQueue)
    /\ req' = Req(IF ok THEN "DbExecuteTransaction" ELSE "DbRollback", NoPos, 0, NoResult)
    /\ ev' = <<>>
    /\ UNCHANGED <<playerVars, inv, items, storedLoot, pending, notItemVars>>

----------------------------------------------------------------------------
(* Other requests of the session that change what the handlers read *)

\* The player moves the item at position p to position q (swapping with what is there)
SwapItem(p, q) ==
    /\ loggedIn
    /\ p # q
    /\ inv[p] # 0
    /\ IsEquipped(q) => ~Template(items[inv[p]].entry).NonEquip
    /\ IsEquipped(p) /\ inv[q] # 0 => ~Template(items[inv[q]].entry).NonEquip
    /\ inv' = [inv EXCEPT ![p] = inv[q], ![q] = inv[p]]
    /\ req' = Req("SwapItem", NoPos, 0, NoResult)
    /\ ev' = <<>>
    /\ UNCHANGED <<playerVars, items, gifts, storedLoot, pending, dbQueue, notItemVars>>

\* The player leaves the world: the session lives on without a player, whose inventory
\* is gone from memory with it
Logout ==
    /\ loggedIn
    /\ loggedIn' = FALSE
    /\ inv' = [p \in Positions |-> 0]
    /\ req' = Req("Logout", NoPos, 0, NoResult)
    /\ ev' = <<>>
    /\ UNCHANGED <<alive, mover, items, gifts, storedLoot, pending, dbQueue, notItemVars>>

----------------------------------------------------------------------------
(* WorldSession::HandleOpenItemOpcode *)

\* The checks on the item found (lines 169-197): the calls of the rejection, <<>> when
\* the item may be opened
OpenItemChecks_LockIgnored(g) ==
    LET item == items[g]
        proto == Template(item.entry)
    IN  IF ~proto.HasLoot /\ ~IsWrapped(item)
        THEN <<SendEquipError("EQUIP_ERR_CLIENT_LOCKED_OUT", g), LogError("not openable", g)>>
        ELSE <<>>
OpenItemChecks_NoLog(g) ==
    LET item == items[g]
        proto == Template(item.entry)
    IN  IF ~proto.HasLoot /\ ~IsWrapped(item)
        THEN <<SendEquipError("EQUIP_ERR_CLIENT_LOCKED_OUT", g)>>
        ELSE IF proto.LockID # 0 /\ ~LockKnown(proto.LockID)
        THEN <<SendEquipError("EQUIP_ERR_ITEM_LOCKED", g)>>
        ELSE IF proto.LockID # 0 /\ IsLocked(item)
        THEN <<SendEquipError("EQUIP_ERR_ITEM_LOCKED", g)>>
        ELSE <<>>
OpenItemChecks(g) ==
    LET item == items[g]
        proto == Template(item.entry)
    IN  IF ~proto.HasLoot /\ ~IsWrapped(item)
        THEN <<SendEquipError("EQUIP_ERR_CLIENT_LOCKED_OUT", g), LogError("not openable", g)>>
        ELSE IF proto.LockID # 0 /\ ~LockKnown(proto.LockID)
        THEN <<SendEquipError("EQUIP_ERR_ITEM_LOCKED", g), LogError("unknown lockId", g)>>
        ELSE IF proto.LockID # 0 /\ IsLocked(item)
        THEN <<SendEquipError("EQUIP_ERR_ITEM_LOCKED", g)>>
        ELSE <<>>

\* Loot::generateMoneyLoot(min, max): the amounts it may roll
MoneyRolls(min, max) ==
    IF max > 0 THEN (IF max <= min THEN {max} ELSE min..max) ELSE {0}

\* The answer on the loot of the item (lines 225-228)
DeliverLoot(g, m_loot) ==
    IF m_loot.present
    THEN Ev("SendLoot", "", g, m_loot)
    ELSE Ev("SendLootError", "LOOT_ERROR_NO_LOOT", g, NoLoot)

\* Is the rolled loot saved (line 222)
SavesLoot(loot) == loot.gold > 0 \/ UnlootedCount(loot) > 0

\* The container branch (lines 211-228), after the calls made so far
OpenContainer(g, sofar) ==
    LET item == items[g]
        proto == Template(item.entry)
    IN  IF item.m_lootGenerated
        THEN /\ ev' = sofar \o <<DeliverLoot(g, item.m_loot)>>
             /\ UNCHANGED <<items, storedLoot>>
        ELSE IF storedLoot[g].present
        THEN \* LootItemStorage::LoadStoredLoot finds the stored loot
             /\ items' = [items EXCEPT ![g].m_loot = storedLoot[g], ![g].m_lootGenerated = TRUE]
             /\ ev' = sofar \o <<Ev("LoadStoredLoot", "", g, storedLoot[g]),
                                 DeliverLoot(g, storedLoot[g])>>
             /\ UNCHANGED storedLoot
        ELSE \E gold \in MoneyRolls(proto.MinMoneyLoot, proto.MaxMoneyLoot),
                contents \in SUBSET LootTable(item.entry) :
                LET loot == MkLoot(gold, contents)
                IN  /\ items' = [items EXCEPT ![g].m_loot = loot]
                    /\ storedLoot' = IF SavesLoot(loot)
                                     THEN [storedLoot EXCEPT ![g] = loot]
                                     ELSE storedLoot
                    /\ ev' = sofar \o <<Ev("FillLoot", "", g, loot)>>
                               \o (IF SavesLoot(loot)
                                   THEN <<Ev("AddNewStoredLoot", "", g, loot)>>
                                   ELSE <<>>)
                               \o <<DeliverLoot(g, loot)>>

\* The wrapped branch (lines 199-208): the lookup is issued, keyed by the item's position
\* and identity now
IssueGiftLookup(g, sofar) ==
    /\ pending' = pending (+) SetToBag({[pos |-> GetPos(g), itemGuid |-> g,
                                          done |-> FALSE, result |-> NoResult]})
    /\ ev' = sofar \o <<Ev("AsyncQuery", "CHAR_SEL_CHARACTER_GIFT_BY_ITEM", g, NoLoot)>>

HandleOpenItemOpcode(Slot, PackSlot) ==
    /\ loggedIn
    /\ req' = Req("OpenItem", <<Slot, PackSlot>>, 0, NoResult)
    /\ UNCHANGED <<playerVars, inv, gifts, dbQueue, notItemVars>>
    /\ LET info == <<LogInfo("bagIndex, slot")>>
           g == GetItemByPos(Slot, PackSlot)
       IN  IF mover # "self"
           THEN ev' = <<>> /\ UNCHANGED <<items, storedLoot, pending>>
           ELSE IF ~alive
           THEN /\ ev' = info \o <<SendEquipError("EQUIP_ERR_PLAYER_DEAD", 0)>>
                /\ UNCHANGED <<items, storedLoot, pending>>
           ELSE IF g = 0
           THEN /\ ev' = info \o <<SendEquipError("EQUIP_ERR_ITEM_NOT_FOUND", 0)>>
                /\ UNCHANGED <<items, storedLoot, pending>>
           ELSE IF OpenItemChecks(g) # <<>>
           THEN /\ ev' = info \o OpenItemChecks(g)
                /\ UNCHANGED <<items, storedLoot, pending>>
           ELSE IF IsWrapped(items[g])
           THEN /\ BagCardinality(pending) < MaxPending
                /\ IssueGiftLookup(g, info)
                /\ UNCHANGED <<items, storedLoot>>
           ELSE /\ OpenContainer(g, info)
                /\ UNCHANGED pending

----------------------------------------------------------------------------
(* WorldSession::HandleOpenWrappedItemCallback *)

\* The re-validation without its test of the wrapped state
StaleContinuation_NoWrappedCheck(pos, itemGuid) ==
    \/ inv[pos] = 0
    \/ inv[pos] # itemGuid

\* The re-validation without its test of the identity
StaleContinuation_NoGuidCheck(pos, itemGuid) ==
    \/ inv[pos] = 0
    \/ ~IsWrapped(items[inv[pos]])

\* The re-validation of the captured position and identity (lines 237-242)
StaleContinuation(pos, itemGuid) ==
    \/ inv[pos] = 0
    \/ inv[pos] # itemGuid
    \/ ~IsWrapped(items[inv[pos]])

\* The item rewritten from the gift record (lines 253-261)
UnwrapItem_FlagsKept(item, result) ==
    [item EXCEPT !.giftCreator = 0,
                 !.entry = result.entry,
                 !.maxDurability = Template(result.entry).MaxDurability,
                 !.uState = "ITEM_CHANGED"]
UnwrapItem(item, result) ==
    [item EXCEPT !.giftCreator = 0,
                 !.entry = result.entry,
                 !.flags = result.flags,
                 !.maxDurability = Template(result.entry).MaxDurability,
                 !.uState = "ITEM_CHANGED"]

\* The inventory saved in the transaction, the gift record deleted outside it
GiftTransaction_SaveOnly(itemGuid) ==
    <<Stmt("SaveInventoryAndGoldToDB", 0)>>

\* The transaction of a valid unwrap (lines 251, 263-269)
GiftTransaction(itemGuid) ==
    <<Stmt("SaveInventoryAndGoldToDB", 0), Stmt("CHAR_DEL_GIFT", itemGuid)>>

HandleOpenWrappedItemCallback(c) ==
    /\ BagIn(c, pending)
    /\ c.done
    /\ LET pos == c.pos
           itemGuid == c.itemGuid
           result == c.result
       IN  /\ pending' = pending (-) SetToBag({c})
           /\ req' = Req("OpenWrappedItemCallback", pos, itemGuid, result)
           /\ UNCHANGED <<playerVars, gifts, storedLoot, notItemVars>>
           /\ IF ~loggedIn \/ StaleContinuation(pos, itemGuid)
              THEN ev' = <<>> /\ UNCHANGED <<inv, items, dbQueue>>
              ELSE IF ~result.found
              THEN /\ ev' = <<LogError("no record in character_gifts", itemGuid),
                              Ev("DestroyItem", "", inv[pos], NoLoot)>>
                   /\ inv' = [inv EXCEPT ![pos] = 0]
                   /\ UNCHANGED <<items, dbQueue>>
              ELSE /\ Len(dbQueue) < MaxDbQueue
                   /\ items' = [items EXCEPT ![inv[pos]] = UnwrapItem(items[inv[pos]], result)]
                   /\ dbQueue' = Append(dbQueue, GiftTransaction(itemGuid))
                   /\ ev' = <<Ev("CommitTransaction", "", itemGuid, NoLoot)>>
                   /\ UNCHANGED inv

----------------------------------------------------------------------------
(* The item subsystem: open-item requests, their continuations, the database *)

MkItem(entry, flags) ==
    [entry |-> entry, flags |-> flags, giftCreator |-> IF "WRAPPED" \in flags THEN 1 ELSE 0,
     maxDurability |-> Template(entry).MaxDurability, uState |-> "ITEM_UNCHANGED",
     m_lootGenerated |-> FALSE, m_loot |-> NoLoot]

\* The items a player may hold when the requests start
StartItems(g) ==
    IF g % 2 = 1
    THEN {MkItem(5, {"WRAPPED"})}
    ELSE {MkItem(5, {"WRAPPED"}), MkItem(1, {}), MkItem(2, {})}

StartPos(g) == <<"backpack", g>>

\* The summon subsystem at rest: no summon
NoSummons ==
    /\ m_SummonSlot = [i \in 0..(MAX_SUMMON_SLOT - 1) |-> 0]
    /\ inWorld = {}

\* No cast is active and no aura is on the player
NoCasts ==
    /\ m_currentSpells = [u \in Units |-> [t \in CurrentSpellTypes |-> NoSpell]]
    /\ m_ownedAuras = {}

\* No self-resurrection spell is granted
NoSelfRes ==
    /\ SelfResSpells = {}
    /\ selfResCasts = [id \in SelfResIds |-> 0]

\* The creatures the player may have summoned
CreatureGuids == {1, 2}

\* The player has no guardian pet and has charmed nothing; the creatures
\* are alive and carry no aura
NoPets ==
    [GuardianPet |-> 0, Charmed |-> 0,
     IsAlive |-> [c \in CreatureGuids |-> TRUE],
     m_ownedAuras |-> [c \in CreatureGuids |-> {}]]

\* The player controls nothing but itself, and no cast was created yet
NoControl ==
    /\ onVehicle = FALSE
    /\ mounted = FALSE
    /\ isPossessing = FALSE
    /\ pets = NoPets
    /\ m_castId = 0

\* The player is neither in combat nor in an arena
AtPeace ==
    /\ inCombat = FALSE
    /\ inArena = FALSE

\* The inventory at rest: the player carries nothing
NoItems ==
    /\ inv = [p \in Positions |-> 0]
    /\ items = [g \in Guids |-> MkItem(5, {})]
    /\ gifts = [g \in Guids |-> NoGift]
    /\ storedLoot = [g \in Guids |-> NoLoot]
    /\ pending = EmptyBag
    /\ dbQueue = <<>>

Init ==
    /\ loggedIn = TRUE
    /\ alive = TRUE
    /\ mover = "self"
    /\ NoSummons
    /\ NoCasts
    /\ NoSelfRes
    /\ AtPeace
    /\ NoControl
    /\ inv = [p \in Positions |-> IF \E g \in Guids : StartPos(g) = p
                                  THEN CHOOSE g \in Guids : StartPos(g) = p
                                  ELSE 0]
    /\ items \in [Guids -> UNION {StartItems(g) : g \in Guids}]
    /\ \A g \in Guids : items[g] \in StartItems(g)
    /\ gifts \in [Guids -> GiftRecords \cup {NoGift}]
    /\ \A g \in Guids : gifts[g] \in (IF IsWrapped(items[g]) THEN StartGifts(g) ELSE {NoGift})
    /\ storedLoot = [g \in Guids |-> NoLoot]
    /\ pending = EmptyBag
    /\ dbQueue = <<>>
    /\ req = Req("Init", NoPos, 0, NoResult)
    /\ ev = <<>>

Next ==
    \/ \E p \in Positions : HandleOpenItemOpcode(p[1], p[2])
    \/ \E c \in BagToSet(pending) : HandleOpenWrappedItemCallback(c)
    \/ \E c \in BagToSet(pending) : DbExecuteQuery(c)
    \/ \E ok \in BOOLEAN : DbExecuteTransaction(ok)
    \/ \E p, q \in PackPositions : SwapItem(p, q)
    \/ Logout

Spec == Init /\ [][Next]_vars

----------------------------------------------------------------------------
(* Summons: HandleTotemDestroyed *)

\* uint8 arithmetic
U8(x) == x % UINT8_COUNT

\* Creature::IsTotem: creature 1 is a totem, creature 2 another summon
IsTotem(c) == c = 1

\* ObjectAccessor::GetCreature: the creature if it is in the world, else 0
GetCreature(guid) == IF guid \in inWorld THEN guid ELSE 0

\* Totem::UnSummon: the totem leaves the world and its owner's slot
UnSummon(totem) ==
    /\ inWorld' = inWorld \ {totem}
    /\ m_SummonSlot' = [i \in DOMAIN m_SummonSlot |->
                           IF m_SummonSlot[i] = totem THEN 0 ELSE m_SummonSlot[i]]

\* The slot the handler looks at: the request's slot plus the first totem slot
TotemSlotId(Slot) == U8(Slot + SUMMON_SLOT_TOTEM)

HandleTotemDestroyed(Slot, TotemGUID) ==
    /\ loggedIn
    /\ req' = Req("TotemDestroyed", <<"slot", Slot>>, TotemGUID, NoResult)
    /\ UNCHANGED <<playerVars, notTotemVars>>
    /\ LET slotId == TotemSlotId(Slot) IN
       IF mover # "self"
       THEN ev' = <<>> /\ UNCHANGED totemVars
       ELSE IF slotId >= MAX_TOTEM_SLOT
       THEN ev' = <<>> /\ UNCHANGED totemVars
       ELSE IF m_SummonSlot[slotId] = 0
       THEN ev' = <<>> /\ UNCHANGED totemVars
       ELSE LET totem == GetCreature(m_SummonSlot[slotId]) IN
            IF totem # 0 /\ IsTotem(totem) /\ totem = TotemGUID
            THEN /\ UnSummon(totem)
                 /\ ev' = <<Ev("UnSummon", "", totem, NoLoot)>>
            ELSE ev' = <<>> /\ UNCHANGED totemVars

\* Every creature is in at most one summon slot, and a summon that is not a
\* totem is in the pet slot
SummonSlotsOk(slots) ==
    /\ \A i, j \in DOMAIN slots : slots[i] # 0 /\ slots[i] = slots[j] => i = j
    /\ \A i \in DOMAIN slots :
           slots[i] # 0 /\ ~IsTotem(slots[i]) => i = SUMMON_SLOT_PET

InitTotem ==
    /\ loggedIn = TRUE
    /\ alive = TRUE
    /\ mover \in {"self", "vehicle"}
    /\ NoItems
    /\ NoCasts
    /\ NoSelfRes
    /\ AtPeace
    /\ NoControl
    /\ m_SummonSlot \in [0..(MAX_SUMMON_SLOT - 1) -> {0} \cup CreatureGuids]
    /\ SummonSlotsOk(m_SummonSlot)
    /\ inWorld \in {CreatureGuids, CreatureGuids \ {1}}
    /\ req = Req("Init", NoPos, 0, NoResult)
    /\ ev = <<>>

NextTotem ==
    \E Slot \in 0..(UINT8_COUNT - 1), TotemGUID \in CreatureGuids :
        HandleTotemDestroyed(Slot, TotemGUID)

SpecTotem == InitTotem /\ [][NextTotem]_vars

----------------------------------------------------------------------------
(* Cancelling casts and auras: HandleCancelAuraOpcode, HandleCancelChanneling *)

\* The test before the removal of a non channeled aura (lines 423-424)
NotRemovable_PassiveAllowed(spellInfo) == ~spellInfo.IsPositive
NotRemovable(spellInfo) == ~spellInfo.IsPositive \/ spellInfo.IsPassive

HandleCancelAuraOpcode(SpellID, CasterGUID) ==
    /\ loggedIn
    /\ req' = Req("CancelAura", <<"caster", CasterGUID>>, SpellID, NoResult)
    /\ ev' = <<>>
    /\ UNCHANGED <<playerVars, notCastVars>>
    /\ LET spellInfo == SpellInfo(SpellID) IN
       IF ~GetSpellInfo(SpellID)
       THEN UNCHANGED castVars
       ELSE IF spellInfo.NO_AURA_CANCEL
       THEN UNCHANGED castVars
       ELSE IF spellInfo.IsChanneled
       THEN LET curSpell == GetCurrentSpell("self", "CURRENT_CHANNELED_SPELL") IN
            IF curSpell # NoSpell /\ curSpell.Id = SpellID
            THEN InterruptSpell("self", "CURRENT_CHANNELED_SPELL")
                 /\ UNCHANGED m_ownedAuras
            ELSE UNCHANGED castVars
       ELSE IF NotRemovable(spellInfo)
       THEN UNCHANGED castVars
       ELSE RemoveOwnedAura(SpellID, CasterGUID) /\ UNCHANGED m_currentSpells

\* The test that ends HandleCancelChanneling before the interrupt
ChannelMismatch_NoIdCheck(spell, spellInfo) == spell = NoSpell
ChannelMismatch(spell, spellInfo) == spell = NoSpell \/ spell.Id # spellInfo.Id

HandleCancelChanneling(ChannelSpell) ==
    /\ loggedIn
    /\ req' = Req("CancelChanneling", NoPos, ChannelSpell, NoResult)
    /\ ev' = <<>>
    /\ UNCHANGED <<playerVars, notCastVars, m_ownedAuras>>
    /\ LET spellInfo == SpellInfo(ChannelSpell) IN
       IF mover # "self" /\ IsPlayer(mover)
       THEN UNCHANGED m_currentSpells
       ELSE IF ~GetSpellInfo(ChannelSpell)
       THEN UNCHANGED m_currentSpells
       ELSE IF spellInfo.NO_AURA_CANCEL
       THEN UNCHANGED m_currentSpells
       ELSE IF ChannelMismatch(GetCurrentSpell(mover, "CURRENT_CHANNELED_SPELL"), spellInfo)
       THEN UNCHANGED m_currentSpells
       ELSE InterruptSpell(mover, "CURRENT_CHANNELED_SPELL")

\* The casts a unit may have active when the requests start: a channeled
\* spell or none in the channel slot; the player is also casting spell 4
StartSpells(unit) ==
    {[t \in CurrentSpellTypes |->
        IF t = "CURRENT_CHANNELED_SPELL" THEN (IF c = 0 THEN NoSpell ELSE MkSpell(c, OtherGuid))
        ELSE IF t = "CURRENT_GENERIC_SPELL" /\ unit = "self" THEN MkSpell(4, PlayerGuid)
        ELSE NoSpell] : c \in {0, 1, 2, 3}}

\* The auras the player may carry when the requests start
StartAuras ==
    {<<4, PlayerGuid>>, <<4, OtherGuid>>, <<5, OtherGuid>>, <<6, PlayerGuid>>,
     <<7, PlayerGuid>>}

InitChannel ==
    /\ loggedIn = TRUE
    /\ alive = TRUE
    /\ mover \in Units
    /\ NoItems
    /\ NoSummons
    /\ NoSelfRes
    /\ AtPeace
    /\ NoControl
    /\ m_currentSpells \in [Units -> UNION {StartSpells(u) : u \in Units}]
    /\ \A u \in Units : m_currentSpells[u] \in StartSpells(u)
    /\ m_ownedAuras \in SUBSET StartAuras
    /\ req = Req("Init", NoPos, 0, NoResult)
    /\ ev = <<>>

NextChannel ==
    \/ \E id \in 1..UnknownSpell, caster \in {0, PlayerGuid, OtherGuid} :
          HandleCancelAuraOpcode(id, caster)
    \/ \E id \in 1..UnknownSpell : HandleCancelChanneling(id)

SpecChannel == InitChannel /\ [][NextChannel]_vars

----------------------------------------------------------------------------
(* One wrapped gift, opened again and again while it is moved *)

InitGift ==
    /\ loggedIn = TRUE
    /\ alive = TRUE
    /\ mover = "self"
    /\ NoSummons
    /\ NoCasts
    /\ NoSelfRes
    /\ AtPeace
    /\ NoControl
    /\ inv = [p \in Positions |-> IF \E g \in Guids : StartPos(g) = p
                                  THEN CHOOSE g \in Guids : StartPos(g) = p
                                  ELSE 0]
    /\ items = [g \in Guids |-> IF g = 1 THEN MkItem(5, {"WRAPPED"}) ELSE MkItem(2, {})]
    /\ gifts \in {[g \in Guids |-> IF g = 1 THEN row ELSE NoGift] : row \in StartGifts(1)}
    /\ storedLoot = [g \in Guids |-> NoLoot]
    /\ pending = EmptyBag
    /\ dbQueue = <<>>
    /\ req = Req("Init", NoPos, 0, NoResult)
    /\ ev = <<>>

NextGift ==
    \/ \E p \in PackPositions : HandleOpenItemOpcode(p[1], p[2])
    \/ \E c \in BagToSet(pending) : HandleOpenWrappedItemCallback(c)
    \/ \E c \in BagToSet(pending) : DbExecuteQuery(c)
    \/ \E ok \in BOOLEAN : DbExecuteTransaction(ok)
    \/ \E p, q \in PackPositions : SwapItem(p, q)

SpecGift == InitGift /\ [][NextGift]_vars

----------------------------------------------------------------------------
(* Opening items, by a player alive or dead *)

\* The items a player may hold when open requests start: a chest, a lockbox
\* locked and unlocked, a lockbox whose lock has no definition, wrapping
\* paper, a wrapped gift
StartOpenItems ==
    {MkItem(1, {}), MkItem(2, {}), MkItem(2, {"UNLOCKED"}), MkItem(3, {}),
     MkItem(5, {}), MkItem(5, {"WRAPPED"})}

InitOpen ==
    /\ loggedIn = TRUE
    /\ alive \in BOOLEAN
    /\ mover = "self"
    /\ NoSummons
    /\ NoCasts
    /\ NoSelfRes
    /\ AtPeace
    /\ NoControl
    /\ inv = [p \in Positions |-> IF \E g \in Guids : StartPos(g) = p
                                  THEN CHOOSE g \in Guids : StartPos(g) = p
                                  ELSE 0]
    /\ items \in [Guids -> StartOpenItems]
    /\ gifts = [g \in Guids |-> IF IsWrapped(items[g])
                                THEN [present |-> TRUE, entry |-> 4, flags |-> {}]
                                ELSE NoGift]
    /\ storedLoot = [g \in Guids |-> NoLoot]
    /\ pending = EmptyBag
    /\ dbQueue = <<>>
    /\ req = Req("Init", NoPos, 0, NoResult)
    /\ ev = <<>>

NextOpen ==
    \E p \in Positions : HandleOpenItemOpcode(p[1], p[2])

SpecOpen == InitOpen /\ [][NextOpen]_vars

----------------------------------------------------------------------------
(* Cancelling auras by type: HandleCancelGrowthAuraOpcode,
   HandleCancelMountAuraOpcode, HandleCancelModSpeedNoControlAuras *)

\* Unit::GetGUID of the units a session may move
UnitGuid(unit) ==
    CASE unit = "self" -> PlayerGuid
      [] unit = "player2" -> OtherGuid
      [] OTHER -> 3

\* The guids a request may name as its target
TargetGuids == {PlayerGuid, OtherGuid, 3}

\* The check of the three handlers on an aura's spell
CanCancel_Protected(spellInfo) == spellInfo.IsPositive /\ ~spellInfo.IsPassive
CanCancel(spellInfo) ==
    ~spellInfo.NO_AURA_CANCEL /\ spellInfo.IsPositive /\ ~spellInfo.IsPassive

\* Unit::RemoveAurasByType(auraType, check): the auras of the type that
\* pass the check go
RemoveAurasByType(auraType) ==
    m_ownedAuras' = {a \in m_ownedAuras :
                        ~(SpellInfo(a[1]).AuraType = auraType /\ CanCancel(SpellInfo(a[1])))}

HandleCancelGrowthAuraOpcode ==
    /\ loggedIn
    /\ req' = Req("CancelGrowthAura", NoPos, 0, NoResult)
    /\ ev' = <<>>
    /\ RemoveAurasByType("SPELL_AURA_MOD_SCALE")
    /\ UNCHANGED <<playerVars, notCastVars, m_currentSpells>>

HandleCancelMountAuraOpcode ==
    /\ loggedIn
    /\ req' = Req("CancelMountAura", NoPos, 0, NoResult)
    /\ ev' = <<>>
    /\ RemoveAurasByType("SPELL_AURA_MOUNTED")
    /\ UNCHANGED <<playerVars, notCastVars, m_currentSpells>>

HandleCancelModSpeedNoControlAuras(TargetGUID) ==
    /\ loggedIn
    /\ req' = Req("CancelModSpeedNoControlAuras", NoPos, TargetGUID, NoResult)
    /\ ev' = <<>>
    /\ IF UnitGuid(mover) # TargetGUID
       THEN UNCHANGED m_ownedAuras
       ELSE RemoveAurasByType("SPELL_AURA_MOD_SPEED_NO_CONTROL")
    /\ UNCHANGED <<playerVars, notCastVars, m_currentSpells>>

\* The auras the player may carry when the requests start: of each type a
\* cancelable one and protected, negative or passive ones, and an aura of
\* no such type
StartTypedAuras ==
    {<<id, PlayerGuid>> : id \in 30..37} \cup {<<4, OtherGuid>>}

InitByType ==
    /\ loggedIn = TRUE
    /\ alive = TRUE
    /\ mover \in Units
    /\ NoItems
    /\ NoSummons
    /\ NoSelfRes
    /\ AtPeace
    /\ NoControl
    /\ m_currentSpells = [u \in Units |-> [t \in CurrentSpellTypes |-> NoSpell]]
    /\ m_ownedAuras \in SUBSET StartTypedAuras
    /\ req = Req("Init", NoPos, 0, NoResult)
    /\ ev = <<>>

NextByType ==
    \/ HandleCancelGrowthAuraOpcode
    \/ HandleCancelMountAuraOpcode
    \/ \E TargetGUID \in TargetGuids : HandleCancelModSpeedNoControlAuras(TargetGUID)

SpecByType == InitByType /\ [][NextByType]_vars

----------------------------------------------------------------------------
(* Cancelling an aura of a pet: HandlePetCancelAuraOpcode *)

\* ObjectAccessor::GetCreatureOrPetOrVehicle: the creature if it is in the
\* world, else 0
GetCreatureOrPetOrVehicle(guid) == IF guid \in inWorld THEN guid ELSE 0

\* Unit::RemoveOwnedAura(spellId, ObjectGuid::Empty, 0, mode) on a creature:
\* its auras of the spell go
RemovePetOwnedAura(pet, spellId) ==
    pets' = [pets EXCEPT !.m_ownedAuras[pet] = @ \ {spellId}]

HandlePetCancelAuraOpcode(SpellID, PetGUID) ==
    /\ loggedIn
    /\ req' = Req("PetCancelAura", <<"pet", PetGUID>>, SpellID, NoResult)
    /\ UNCHANGED <<playerVars, itemVars, totemVars, castVars, resVars, fightVars,
                   onVehicle, mounted, isPossessing, m_castId>>
    /\ LET pet == GetCreatureOrPetOrVehicle(PetGUID) IN
       IF GetSpellInfo(SpellID)
       THEN /\ ev' = <<LogError("unknown PET spell id", SpellID)>>
            /\ UNCHANGED pets
       ELSE IF pet = 0
       THEN /\ ev' = <<LogError("non-existant pet", PetGUID)>>
            /\ UNCHANGED pets
       ELSE IF pet # pets.GuardianPet /\ pet # pets.Charmed
       THEN /\ ev' = <<LogError("not a pet of player", PetGUID)>>
            /\ UNCHANGED pets
       ELSE IF ~pets.IsAlive[pet]
       THEN /\ ev' = <<Ev("SendPetActionFeedback", "PetActionFeedback::Dead", pet, NoLoot)>>
            /\ UNCHANGED pets
       ELSE /\ ev' = <<>>
            /\ RemovePetOwnedAura(pet, SpellID)

\* The auras a creature may carry when the requests start: a buff and a
\* harmful aura
StartPetAuras == {4, 5}

\* The guids a request may name as its pet: the creatures, and a guid of
\* no creature
PetGuids == CreatureGuids \cup {3}

InitPet ==
    /\ loggedIn = TRUE
    /\ alive = TRUE
    /\ mover = "self"
    /\ NoItems
    /\ NoCasts
    /\ NoSelfRes
    /\ AtPeace
    /\ m_SummonSlot = [i \in 0..(MAX_SUMMON_SLOT - 1) |-> 0]
    /\ inWorld \in {CreatureGuids, {1}}
    /\ onVehicle = FALSE
    /\ mounted = FALSE
    /\ isPossessing = FALSE
    /\ m_castId = 0
    /\ pets \in [GuardianPet : {0, 1}, Charmed : {0, 2},
                  IsAlive : [CreatureGuids -> BOOLEAN],
                  m_ownedAuras : [CreatureGuids -> SUBSET StartPetAuras]]
    /\ req = Req("Init", NoPos, 0, NoResult)
    /\ ev = <<>>

NextPet ==
    \E SpellID \in StartPetAuras \cup {UnknownSpell}, PetGUID \in PetGuids :
        HandlePetCancelAuraOpcode(SpellID, PetGUID)

SpecPet == InitPet /\ [][NextPet]_vars

----------------------------------------------------------------------------
(* Self-resurrection: HandleSelfResOpcode *)

\* most casts of one spell the history counts
MaxCounted == 2

\* Unit::HasAuraType(SPELL_AURA_PREVENT_RESURRECTION)
HasAuraTypePreventResurrection ==
    \E a \in m_ownedAuras : SpellInfo(a[1]).PREVENT_RESURRECTION

\* SelfResSpells.FindIndex(SpellID) < 0
NotGranted_Skipped(SpellID) == FALSE
NotGranted(SpellID) == SpellID \notin SelfResSpells

\* The player is kept from resurrecting with this spell
ResurrectionPrevented_Inverted(spellInfo) ==
    HasAuraTypePreventResurrection /\ spellInfo.BYPASS_NO_RESURRECT_AURA
ResurrectionPrevented(spellInfo) ==
    HasAuraTypePreventResurrection /\ ~spellInfo.BYPASS_NO_RESURRECT_AURA

\* Player::RemoveSelfResSpell
RemoveSelfResSpell(SpellID) == SelfResSpells' = SelfResSpells \ {SpellID}

HandleSelfResOpcode(SpellID) ==
    /\ loggedIn
    /\ req' = Req("SelfRes", NoPos, SpellID, NoResult)
    /\ UNCHANGED <<playerVars, notResVars>>
    /\ IF NotGranted(SpellID)
       THEN ev' = <<>> /\ UNCHANGED resVars
       ELSE IF ~GetSpellInfo(SpellID)
       THEN ev' = <<>> /\ UNCHANGED resVars
       ELSE IF ResurrectionPrevented(SpellInfo(SpellID))
       THEN ev' = <<>> /\ UNCHANGED resVars
       ELSE /\ ev' = <<Ev("CastSpell", "", SpellID, NoLoot)>>
            /\ RemoveSelfResSpell(SpellID)
            /\ selfResCasts' =
                 [selfResCasts EXCEPT ![SpellID] =
                     IF @ < MaxCounted THEN @ + 1 ELSE MaxCounted]

\* Player::AddSelfResSpell: the player dies with an effect that grants the spell
AddSelfResSpell(SpellID) ==
    /\ loggedIn
    /\ req' = Req("AddSelfResSpell", NoPos, SpellID, NoResult)
    /\ ev' = <<>>
    /\ SelfResSpells' = SelfResSpells \cup {SpellID}
    /\ selfResCasts' = [selfResCasts EXCEPT ![SpellID] = 0]
    /\ UNCHANGED <<playerVars, notResVars>>

InitSelfRes ==
    /\ loggedIn = TRUE
    /\ alive \in BOOLEAN
    /\ mover = "self"
    /\ NoItems
    /\ NoSummons
    /\ AtPeace
    /\ NoControl
    /\ m_currentSpells = [u \in Units |-> [t \in CurrentSpellTypes |-> NoSpell]]
    /\ m_ownedAuras \in {{}, {<<11, OtherGuid>>}}
    /\ NoSelfRes
    /\ req = Req("Init", NoPos, 0, NoResult)
    /\ ev = <<>>

NextSelfRes ==
    \/ \E id \in SelfResIds : HandleSelfResOpcode(id)
    \/ \E id \in SelfResIds : AddSelfResSpell(id)

SpecSelfRes == InitSelfRes /\ [][NextSelfRes]_vars

----------------------------------------------------------------------------
(* Using an item: HandleUseItemOpcode *)

\* Player::GetUseableItemByPos: the item at the position, 0 for none
GetUseableItemByPos(bag, slot) == GetItemByPos(bag, slot)

\* Player::CanUseItem: a dead player uses nothing
CanUseItem(item) == IF alive THEN "EQUIP_ERR_OK" ELSE "EQUIP_ERR_PLAYER_DEAD"

\* Some item classes can be used only in equipped state (line 74)
MustBeEquipped_Skipped(proto, pos) == FALSE
MustBeEquipped(proto, pos) == ~proto.NonEquip /\ ~IsEquipped(pos)

\* Only exempt consumables are used in an arena (line 88)
ArenaRestricted_ExemptOnly(use) ==
    use.Consumable /\ use.IGNORE_DEFAULT_ARENA_RESTRICTIONS /\ inArena
ArenaRestricted(use) ==
    use.Consumable /\ ~use.IGNORE_DEFAULT_ARENA_RESTRICTIONS /\ inArena

\* An effect of the item is a known spell that cannot be used in combat
HasEffectNotForCombat(use) ==
    \E id \in use.Effects : GetSpellInfo(id) /\ ~SpellInfo(id).CanBeUsedInCombat

\* Does the use bind the item (lines 117-119)
BindsOnUse_AnyPolicy(item) == ~IsSoulBound(item)
BindsOnUse(item) ==
    /\ UseTemplate(item.entry).Bonding \in {"BIND_ON_USE", "BIND_ON_ACQUIRE", "BIND_QUEST"}
    /\ ~IsSoulBound(item)

\* Unit::RemoveAurasWithInterruptFlags(SpellAuraInterruptFlags::ItemUse)
RemoveAurasWithInterruptFlagsItemUse ==
    m_ownedAuras' = {a \in m_ownedAuras : ~SpellInfo(a[1]).InterruptOnItemUse}

\* The request is turned down with an error, nothing changes
RejectUse(code, guid) ==
    /\ ev' = <<SendEquipError(code, guid)>>
    /\ UNCHANGED <<items, m_ownedAuras>>

HandleUseItemOpcode(PackSlot, Slot, CastItem) ==
    /\ loggedIn
    /\ req' = Req("UseItem", <<PackSlot, Slot>>, CastItem, NoResult)
    /\ UNCHANGED <<playerVars, inv, gifts, storedLoot, pending, dbQueue, totemVars,
                   m_currentSpells, resVars, fightVars, ctrlVars, m_castId>>
    /\ LET g == GetUseableItemByPos(PackSlot, Slot)
           \* every item has its template: the test of lines 66-71 never fails
           item == items[g]
           proto == Template(item.entry)
           use == UseTemplate(item.entry)
       IN  IF mover # "self"
           THEN ev' = <<>> /\ UNCHANGED <<items, m_ownedAuras>>
           ELSE IF g = 0
           THEN RejectUse("EQUIP_ERR_ITEM_NOT_FOUND", 0)
           ELSE IF g # CastItem
           THEN RejectUse("EQUIP_ERR_ITEM_NOT_FOUND", 0)
           ELSE IF MustBeEquipped(proto, <<PackSlot, Slot>>)
           THEN RejectUse("EQUIP_ERR_ITEM_NOT_FOUND", g)
           ELSE IF CanUseItem(item) # "EQUIP_ERR_OK"
           THEN RejectUse(CanUseItem(item), g)
           ELSE IF ArenaRestricted(use)
           THEN RejectUse("EQUIP_ERR_NOT_DURING_ARENA_MATCH", g)
           ELSE IF use.NOT_USEABLE_IN_ARENA /\ inArena
           THEN RejectUse("EQUIP_ERR_NOT_DURING_ARENA_MATCH", g)
           ELSE IF inCombat /\ HasEffectNotForCombat(use)
           THEN RejectUse("EQUIP_ERR_NOT_IN_COMBAT", g)
           ELSE /\ items' = IF BindsOnUse(item)
                            THEN [items EXCEPT ![g].uState = "ITEM_CHANGED",
                                               ![g].flags = @ \cup {"SOULBOUND"}]
                            ELSE items
                /\ RemoveAurasWithInterruptFlagsItemUse
                /\ ev' = (IF BindsOnUse(item)
                          THEN <<Ev("AddItemAppearance", "", g, NoLoot)>> ELSE <<>>)
                         \o <<Ev("RemoveAurasWithInterruptFlags", "ItemUse", 0, NoLoot),
                              Ev("OnItemUse", "", g, NoLoot)>>
                         \o (IF use.Scripted
                             THEN <<>> ELSE <<Ev("CastItemUseSpell", "", g, NoLoot)>>)

\* The items a player may hold when use requests start
StartUseItems(g) ==
    IF g % 2 = 1
    THEN {MkItem(8, {}), MkItem(4, {})}
    ELSE {MkItem(6, {}), MkItem(7, {}), MkItem(9, {}), MkItem(10, {}),
          MkItem(8, {"SOULBOUND"})}

InitUse ==
    /\ loggedIn = TRUE
    /\ alive \in BOOLEAN
    /\ mover \in {"self", "vehicle"}
    /\ NoSummons
    /\ NoSelfRes
    /\ inCombat \in BOOLEAN
    /\ inArena \in BOOLEAN
    /\ NoControl
    /\ m_currentSpells = [u \in Units |-> [t \in CurrentSpellTypes |-> NoSpell]]
    /\ m_ownedAuras \in {{}, {<<4, PlayerGuid>>, <<13, PlayerGuid>>}}
    /\ inv = [p \in Positions |-> IF \E g \in Guids : StartPos(g) = p
                                  THEN CHOOSE g \in Guids : StartPos(g) = p
                                  ELSE 0]
    /\ items \in [Guids -> UNION {StartUseItems(g) : g \in Guids}]
    /\ \A g \in Guids : items[g] \in StartUseItems(g)
    /\ gifts = [g \in Guids |-> NoGift]
    /\ storedLoot = [g \in Guids |-> NoLoot]
    /\ pending = EmptyBag
    /\ dbQueue = <<>>
    /\ req = Req("Init", NoPos, 0, NoResult)
    /\ ev = <<>>

NextUse ==
    \/ \E p \in Positions, CastItem \in Guids : HandleUseItemOpcode(p[1], p[2], CastItem)
    \/ \E p, q \in Positions : SwapItem(p, q)

SpecUse == InitUse /\ [][NextUse]_vars

----------------------------------------------------------------------------
(* World objects: HandleGameObjectUseOpcode, HandleGameobjectReportUse *)

\* what the object handlers and the cast handler leave alone
notSpellVars ==
    <<itemVars, totemVars, m_ownedAuras, resVars, fightVars, ctrlVars>>

\* The player controls another unit, is neither its passenger nor mounted,
\* and the object is not one used from the saddle (lines 277-279)
RemoteUseDropped_Inverted(obj) ==
    /\ mover # "self"
    /\ ~(IsOnVehicle \/ mounted) /\ IsUsableMounted(obj)
RemoteUseDropped(obj) ==
    /\ mover # "self"
    /\ ~(IsOnVehicle \/ mounted) /\ ~IsUsableMounted(obj)

HandleGameObjectUseOpcode(Guid) ==
    /\ loggedIn
    /\ req' = Req("GameObjUse", <<"go", Guid>>, 0, NoResult)
    /\ UNCHANGED <<playerVars, notSpellVars, m_currentSpells, m_castId>>
    /\ LET obj == GetGameObject(Guid) IN
       IF obj = 0
       THEN ev' = <<>>
       ELSE IF RemoteUseDropped(obj)
       THEN ev' = <<>>
       ELSE ev' = <<Ev("GameObject::Use", "", obj, NoLoot)>>

HandleGameobjectReportUse(Guid) ==
    /\ loggedIn
    /\ req' = Req("GameObjReportUse", <<"go", Guid>>, 0, NoResult)
    /\ UNCHANGED <<playerVars, notSpellVars, m_currentSpells, m_castId>>
    /\ LET go == GetGameObject(Guid) IN
       IF mover # "self"
       THEN ev' = <<>>
       ELSE IF go = 0
       THEN ev' = <<>>
       ELSE IF OnReportUse(go)
       THEN ev' = <<Ev("OnReportUse", "", go, NoLoot)>>
       ELSE ev' = <<Ev("OnReportUse", "", go, NoLoot),
                    Ev("UpdateCriteria", "UseGameobject", go, NoLoot)>>

----------------------------------------------------------------------------
(* Casting: HandleCastSpellOpcode *)

\* casts created in one run
MaxCasts == 1

\* The cast id the server gives to its n-th cast
ServerCastId(n) == 100 + n

\* Spell::GetCurrentContainer: the slot a cast of the spell takes
GetCurrentContainer(id) ==
    IF SpellInfo(id).IsAutoRepeatRangedSpell THEN "CURRENT_AUTOREPEAT_SPELL"
    ELSE IF SpellInfo(id).IsChanneled THEN "CURRENT_CHANNELED_SPELL"
    ELSE "CURRENT_GENERIC_SPELL"

\* Spell::prepare: the cast starts and takes its slot, or fails its checks
Prepare(caster, id, unitTarget, ok) ==
    m_currentSpells' =
        IF ok
        THEN [m_currentSpells EXCEPT ![caster][GetCurrentContainer(id)] =
                                          MkSpell(id, unitTarget)]
        ELSE m_currentSpells

\* The mover is a creature without the spell: the player casts in its place
\* (line 315)
IsRedirected(SpellID) == ~IsPlayer(mover) /\ ~CreatureHasSpell(SpellID)

\* The redirection fails (line 319)
RedirectionRefused(SpellID) == ~IsOnVehicle \/ ~CheckVehicleOk(SpellID)

\* The caster is a player that may not cast the spell as a spell of its own
\* (line 329)
NeedsExemption(caster, SpellID) ==
    /\ IsPlayer(caster)
    /\ ~HasActiveSpell(SpellID)
    /\ ~SpellInfo(SpellID).CHANGE_RAID_MARKER
    /\ ~SpellInfo(SpellID).RAID_MARKER

\* The game object target is opened by the spell (lines 334-336)
LockExemption_AnyObject(go, SpellID) == go # 0
LockExemption(go, SpellID) == go # 0 /\ GetSpellForLock(go) = SpellID

\* A clientside periodic trigger aura triggers the spell (line 339)
TriggerExemption(SpellID) == HasAuraTypeWithTriggerSpell(SpellID)

\* The trigger flags of the cast (lines 323, 342)
TriggerFlag(caster, SpellID) ==
    IF NeedsExemption(caster, SpellID) /\ TriggerExemption(SpellID)
    THEN "TRIGGERED_FULL_MASK" ELSE "TRIGGERED_NONE"

\* The request repeats the auto-repeat cast that is active (lines 363-366)
IsResentAutoRepeat_AnyTarget(caster, id, unitTarget) ==
    /\ SpellInfo(id).IsAutoRepeatRangedSpell
    /\ GetCurrentSpell(caster, "CURRENT_AUTOREPEAT_SPELL") # NoSpell
    /\ GetCurrentSpell(caster, "CURRENT_AUTOREPEAT_SPELL").Id = id
IsResentAutoRepeat(caster, id, unitTarget) ==
    /\ SpellInfo(id).IsAutoRepeatRangedSpell
    /\ GetCurrentSpell(caster, "CURRENT_AUTOREPEAT_SPELL") # NoSpell
    /\ GetCurrentSpell(caster, "CURRENT_AUTOREPEAT_SPELL").Id = id
    /\ GetCurrentSpell(caster, "CURRENT_AUTOREPEAT_SPELL").target = unitTarget

\* The rank of the spell for the target, the spell itself when no rank fits
\* or no unit is targeted (lines 369-376)
ActualSpellInfo(id, unitTarget) ==
    IF unitTarget # 0 /\ GetAuraRankForLevel(id, unitTarget) # 0
    THEN GetAuraRankForLevel(id, unitTarget)
    ELSE id

\* The spell that is cast: the caster's override of the requested spell
\* (line 351), then its rank for the target (lines 368-376)
ResolveSpell_RankFirst(caster, SpellID, unitTarget) ==
    GetCastSpellInfo(caster, ActualSpellInfo(SpellID, unitTarget))
ResolveSpell(caster, SpellID, unitTarget) ==
    ActualSpellInfo(GetCastSpellInfo(caster, SpellID), unitTarget)

\* The passive test and the possession test (lines 354-359)
CastRefused_PassiveOnly(id) == SpellInfo(id).IsPassive
CastRefused(id) == SpellInfo(id).IsPassive \/ isPossessing

\* The calls of lines 378-392, in their order
BeginCast_AckFirst(caster, id, flag, MoveUpdate, CastID, server) ==
    <<CastEv("SendPacket", "SMSG_SPELL_PREPARE", id, caster, CastID, server)>>
    \o (IF MoveUpdate THEN <<Ev("HandleMovementOpcode", "CMSG_MOVE_STOP", 0, NoLoot)>> ELSE <<>>)
    \o <<CastEv("new Spell", flag, id, caster, 0, server),
         CastEv("Spell::prepare", flag, id, caster, 0, server)>>
BeginCast(caster, id, flag, MoveUpdate, CastID, server) ==
    (IF MoveUpdate THEN <<Ev("HandleMovementOpcode", "CMSG_MOVE_STOP", 0, NoLoot)>> ELSE <<>>)
    \o <<CastEv("new Spell", flag, id, caster, 0, server),
         CastEv("SendPacket", "SMSG_SPELL_PREPARE", id, caster, CastID, server),
         CastEv("Spell::prepare", flag, id, caster, 0, server)>>

HandleCastSpellOpcode(SpellID, target, MoveUpdate, CastID) ==
    /\ loggedIn
    /\ req' = CastReq(SpellID, target, MoveUpdate, CastID)
    /\ UNCHANGED <<playerVars, notSpellVars>>
    /\ LET unitTarget == IF target[1] = "unit" THEN target[2] ELSE 0
           goTarget == IF target[1] = "go" THEN GetGameObject(target[2]) ELSE 0
           caster == IF IsRedirected(SpellID) THEN "self" ELSE mover
           spellInfo == GetCastSpellInfo(caster, SpellID)
           actual == ResolveSpell(caster, SpellID, unitTarget)
           drop == ev' = <<>> /\ UNCHANGED <<m_currentSpells, m_castId>>
       IN  IF mover # "self" /\ IsPlayer(mover)
           THEN drop
           ELSE IF ~GetSpellInfo(SpellID)
           THEN /\ ev' = <<LogError("unknown spell id", SpellID)>>
                /\ UNCHANGED <<m_currentSpells, m_castId>>
           ELSE IF IsRedirected(SpellID) /\ RedirectionRefused(SpellID)
           THEN drop
           ELSE IF /\ NeedsExemption(caster, SpellID)
                   /\ ~LockExemption(goTarget, SpellID)
                   /\ ~TriggerExemption(SpellID)
           THEN drop
           ELSE IF CastRefused(spellInfo)
           THEN drop
           ELSE IF IsResentAutoRepeat(caster, spellInfo, unitTarget)
           THEN drop
           ELSE /\ m_castId < MaxCasts
                /\ m_castId' = m_castId + 1
                /\ ev' = BeginCast(caster, actual, TriggerFlag(caster, SpellID),
                                    MoveUpdate, CastID, ServerCastId(m_castId + 1))
                /\ \E ok \in BOOLEAN : Prepare(caster, actual, unitTarget, ok)

\* The spells a cast request may name
CastSpellIds == {1, 4, 6, UnknownSpell, 16, 19, 21, 22, 23, 24, 25, 26, 28}

\* The spell and target of a cast request: every spell without a target,
\* and the spells whose handling depends on the target with a unit or a
\* game object
CastRequests ==
    {<<id, <<"none", 0>>>> : id \in CastSpellIds}
    \cup {<<id, <<"unit", t>>>> : id \in {4, 22, 28}, t \in {OtherGuid, 3}}
    \cup {<<id, <<"go", 1>>>> : id \in {21, 23}}

\* The client's cast ids
ClientCastIds == {1, 2}

InitCast ==
    /\ loggedIn = TRUE
    /\ alive = TRUE
    /\ mover \in Units
    /\ NoItems
    /\ NoSummons
    /\ NoSelfRes
    /\ AtPeace
    /\ onVehicle \in (IF mover = "vehicle" THEN BOOLEAN ELSE {FALSE})
    /\ mounted = FALSE
    /\ isPossessing \in BOOLEAN
    /\ pets = NoPets
    /\ m_castId = 0
    /\ m_currentSpells \in
          {[u \in Units |-> [t \in CurrentSpellTypes |->
              IF u = "self" /\ t = "CURRENT_AUTOREPEAT_SPELL" THEN a ELSE NoSpell]] :
           a \in {NoSpell, MkSpell(22, OtherGuid), MkSpell(27, OtherGuid)}}
    /\ m_ownedAuras \in SUBSET {<<14, OtherGuid>>, <<15, PlayerGuid>>}
    /\ req = Req("Init", NoPos, 0, NoResult)
    /\ ev = <<>>

NextCast ==
    \E r \in CastRequests, mv \in BOOLEAN, cid \in ClientCastIds :
        HandleCastSpellOpcode(r[1], r[2], mv, cid)

SpecCast == InitCast /\ [][NextCast]_vars

----------------------------------------------------------------------------
(* Remote control: every handler that looks at the session's mover *)

\* The slots a destroy-summon request names here: the first and the last
\* totem slot, and the largest slot the request can carry
RemoteSlots == {0, MAX_TOTEM_SLOT - SUMMON_SLOT_TOTEM - 1, UINT8_COUNT - 1}

\* The cast requests made here: a spell the player knows, one only the
\* vehicle has, an unknown one
RemoteCasts == {1, 19, UnknownSpell}

InitRemote ==
    /\ loggedIn = TRUE
    /\ alive = TRUE
    /\ mover \in Units
    /\ NoSelfRes
    /\ AtPeace
    /\ onVehicle \in (IF mover = "vehicle" THEN BOOLEAN ELSE {FALSE})
    /\ mounted \in BOOLEAN
    /\ isPossessing = FALSE
    /\ pets = NoPets
    /\ m_castId = 0
    /\ m_SummonSlot = [i \in 0..(MAX_SUMMON_SLOT - 1) |->
                          IF i = SUMMON_SLOT_TOTEM THEN 1 ELSE 0]
    /\ inWorld = CreatureGuids
    /\ m_currentSpells = [u \in Units |-> [t \in CurrentSpellTypes |->
                             IF t = "CURRENT_CHANNELED_SPELL"
                             THEN MkSpell(3, OtherGuid) ELSE NoSpell]]
    /\ m_ownedAuras = {<<13, PlayerGuid>>}
    /\ inv = [p \in Positions |-> IF \E g \in Guids : StartPos(g) = p
                                  THEN CHOOSE g \in Guids : StartPos(g) = p
                                  ELSE 0]
    /\ items \in {[g \in Guids |-> IF g = 1 THEN MkItem(1, {}) ELSE second] :
                   second \in {MkItem(6, {}), MkItem(3, {})}}
    /\ gifts = [g \in Guids |-> NoGift]
    /\ storedLoot = [g \in Guids |-> NoLoot]
    /\ pending = EmptyBag
    /\ dbQueue = <<>>
    /\ req = Req("Init", NoPos, 0, NoResult)
    /\ ev = <<>>

NextRemote ==
    \/ \E p \in Positions, CastItem \in Guids : HandleUseItemOpcode(p[1], p[2], CastItem)
    \/ \E p \in Positions : HandleOpenItemOpcode(p[1], p[2])
    \/ \E Guid \in GameObjects : HandleGameObjectUseOpcode(Guid)
    \/ \E Guid \in GameObjects : HandleGameobjectReportUse(Guid)
    \/ \E id \in RemoteCasts, cid \in ClientCastIds :
          HandleCastSpellOpcode(id, <<"none", 0>>, FALSE, cid)
    \/ \E id \in {3, UnknownSpell} : HandleCancelChanneling(id)
    \/ \E Slot \in RemoteSlots, TotemGUID \in CreatureGuids :
          HandleTotemDestroyed(Slot, TotemGUID)

SpecRemote == InitRemote /\ [][NextRemote]_vars

----------------------------------------------------------------------------
(* Properties of the wrapped-item continuation *)

IsCallback(r) == r.op = "OpenWrappedItemCallback"

\* The item captured by the lookup is at the captured position and is wrapped
StillTheGift(pos, guid) ==
    /\ inv[pos] # 0
    /\ inv[pos] = guid
    /\ "WRAPPED" \in items[guid].flags

\* The guids held in the inventory
Held == {inv[p] : p \in Positions} \ {0}

\* C1: a continuation that finds the captured slot empty, or holding another item, or
\* holding an item no longer wrapped, changes nothing: no item is rewritten or
\* destroyed, nothing is saved or deleted in the database, nothing is logged or sent,
\* whatever the lookup returned.
C1_StaleContinuationIsNoOp ==
    [][(IsCallback(req') /\ ~StillTheGift(req'.pos, req'.guid))
         => /\ UNCHANGED <<loggedIn, alive, mover, inv, items, gifts, storedLoot, dbQueue>>
            /\ ev' = <<>>]_vars

\* C1 witness: a continuation has run after its gift was moved to another slot, another
\* item now lying in the captured slot
C1_Witness ==
    /\ IsCallback(req)
    /\ inv[req.pos] # 0
    /\ inv[req.pos] # req.guid
    /\ \E p \in Positions : inv[p] = req.guid /\ "WRAPPED" \in items[req.guid].flags

\* C4: a continuation on a valid match whose lookup found no gift record removes the
\* item from the inventory and logs an error, rewrites no item and queues no
\* transaction; and no continuation removes an item in any other case.
C4_CorruptGiftIsDestroyed ==
    [][/\ (IsCallback(req') /\ StillTheGift(req'.pos, req'.guid) /\ ~req'.result.found)
            => /\ inv' = [inv EXCEPT ![req'.pos] = 0]
               /\ Has(ev', "TC_LOG_ERROR")
               /\ UNCHANGED <<items, gifts, dbQueue>>
       /\ (IsCallback(req') /\ (Held' # Held \/ Has(ev', "DestroyItem")))
            => /\ StillTheGift(req'.pos, req'.guid)
               /\ ~req'.result.found
               /\ Held' = Held \ {req'.guid}]_vars

\* C4 witness: a continuation has destroyed a gift that had no record
C4_Witness ==
    /\ IsCallback(req)
    /\ ~req.result.found
    /\ Has(ev, "DestroyItem")
    /\ req.guid \notin Held

\* A transaction holds the inventory save and the deletion of the gift record of guid
SavesAndDeletes(trans, guid) ==
    /\ \E k \in 1..Len(trans) : trans[k].stmt = "SaveInventoryAndGoldToDB"
    /\ \E k \in 1..Len(trans) : trans[k] = Stmt("CHAR_DEL_GIFT", guid)
    /\ \A k \in 1..Len(trans) : trans[k].stmt = "CHAR_DEL_GIFT" => trans[k].guid = guid

\* C5: a continuation on a valid match whose lookup found the gift record rewrites the
\* item's entry, flags and maximal durability from the record and commits one
\* transaction holding both the inventory save and the deletion of the gift record of
\* the captured identity; transactions are queued by nothing else, and a gift record
\* disappears only when such a transaction is executed, with its inventory save.
C5_UnwrapIsOneTransaction ==
    [][/\ (IsCallback(req') /\ StillTheGift(req'.pos, req'.guid) /\ req'.result.found)
            => /\ items'[req'.guid].entry = req'.result.entry
               /\ items'[req'.guid].flags = req'.result.flags
               /\ items'[req'.guid].maxDurability = Template(req'.result.entry).MaxDurability
               /\ \A g \in Guids \ {req'.guid} : items'[g] = items[g]
               /\ Len(dbQueue') = Len(dbQueue) + 1
               /\ SubSeq(dbQueue', 1, Len(dbQueue)) = dbQueue
               /\ SavesAndDeletes(dbQueue'[Len(dbQueue')], req'.guid)
       /\ Len(dbQueue') > Len(dbQueue)
            => IsCallback(req') /\ StillTheGift(req'.pos, req'.guid) /\ req'.result.found
       /\ \A g \in Guids : gifts'[g] # gifts[g]
            => /\ dbQueue # <<>>
               /\ dbQueue' = Tail(dbQueue)
               /\ SavesAndDeletes(Head(dbQueue), g)
               /\ gifts'[g] = NoGift]_vars

\* C5 witness: a continuation has unwrapped a gift into the weapon of its record, and
\* its transaction waits in the queue
C5_Witness ==
    /\ IsCallback(req)
    /\ req.result.found
    /\ req.guid \in Held
    /\ items[req.guid].entry = req.result.entry
    /\ items[req.guid].maxDurability = 50
    /\ dbQueue # <<>>
    /\ SavesAndDeletes(dbQueue[Len(dbQueue)], req.guid)

----------------------------------------------------------------------------
(* Properties of the container branch of open-item *)

IsOpen(r) == r.op = "OpenItem"

\* The loot an open-item step delivered with SendLoot
Delivered(events) == events[Len(events)].loot

\* C2: once a container has loot from an earlier open, a later open does not roll
\* loot again and delivers the same contents.
C2_LootGeneratedOnce ==
    [][(/\ IsOpen(req')
        /\ inv[req'.pos] # 0
        /\ items[inv[req'.pos]].m_loot.present
        /\ Has(ev', "SendLoot"))
         => /\ ~Has(ev', "FillLoot")
            /\ Delivered(ev') = items[inv[req'.pos]].m_loot]_vars

\* C3: an open whose fresh generation rolled neither money nor items answers with the
\* no-loot loot error and with no loot delivery.
C3_EmptyGenerationIsNoLoot ==
    \A i \in 1..Len(ev) :
        (ev[i].e = "FillLoot" /\ ev[i].loot.gold = 0 /\ ev[i].loot.contents = {})
            => /\ ~Has(ev, "SendLoot")
               /\ \E k \in 1..Len(ev) :
                      ev[k].e = "SendLootError" /\ ev[k].code = "LOOT_ERROR_NO_LOOT"

----------------------------------------------------------------------------
(* Properties of the summon handler *)

IsTotemDestroyed(r) == r.op = "TotemDestroyed"

----------------------------------------------------------------------------
(* Properties of the cancel handlers *)

\* The cast slots of a unit other than its channel slot
OtherSlots(spells, unit) ==
    [t \in CurrentSpellTypes \ {"CURRENT_CHANNELED_SPELL"} |-> spells[unit][t]]

\* The unit whose channel a cancel request is about: the mover for
\* cancel-channelling, the player for cancel-aura
Actor(r) == IF r.op = "CancelChanneling" THEN mover ELSE "self"

IsChannelCancel(r) ==
    \/ r.op = "CancelChanneling"
    \/ r.op = "CancelAura" /\ SpellInfo(r.guid).IsChanneled

\* The channel slot of the actor holds a cast of the spell the request names,
\* and that spell is known and may be cancelled
ChannelMatches(r) ==
    /\ r.guid # UnknownSpell
    /\ r.guid \notin {2, 7}
    /\ m_currentSpells[Actor(r)]["CURRENT_CHANNELED_SPELL"].Id = r.guid

\* C7: a channeled-spell cancel empties the actor's channel slot only if the
\* cast active in that slot is of the spell the request names, known and
\* cancelable; otherwise no cast of any unit changes.  It never touches
\* another slot or another unit.
C7_ChannelCancelOnlyOnMatch ==
    [][IsChannelCancel(req')
         => /\ (m_currentSpells' # m_currentSpells => ChannelMatches(req'))
            /\ \A u \in Units :
                 /\ OtherSlots(m_currentSpells', u) = OtherSlots(m_currentSpells, u)
                 /\ u # Actor(req') => m_currentSpells'[u] = m_currentSpells[u]
            /\ m_currentSpells'[Actor(req')]["CURRENT_CHANNELED_SPELL"]
                 \in {NoSpell, m_currentSpells[Actor(req')]["CURRENT_CHANNELED_SPELL"]}]_vars

\* A channel of spell 3 stays while a cancel names spell 1, through a vehicle
C7_Witness ==
    /\ req.op = "CancelChanneling"
    /\ req.guid = 1
    /\ mover = "vehicle"
    /\ m_currentSpells["vehicle"]["CURRENT_CHANNELED_SPELL"].Id = 3

----------------------------------------------------------------------------
(* Properties of self-resurrection *)

IsSelfRes(r) == r.op = "SelfRes"

\* A resurrection-prevention aura is on the player
Prevented == \E a \in m_ownedAuras : a[1] = 11

\* C8: a self-resurrect request made while resurrection is prevented, for a
\* spell without the bypass attribute, casts nothing, leaves the granted list
\* as it was and sends no response.
C8_PreventedSelfResIsSilent ==
    [][(IsSelfRes(req') /\ Prevented /\ req'.guid # 10)
         => /\ ev' = <<>>
            /\ SelfResSpells' = SelfResSpells
            /\ UNCHANGED <<playerVars, itemVars, totemVars, castVars, fightVars>>]_vars

\* A granted spell was asked for while resurrection was prevented
C8_Witness ==
    /\ IsSelfRes(req)
    /\ req.guid = 9
    /\ Prevented
    /\ 9 \in SelfResSpells
    /\ ev = <<>>

\* C9: a self-resurrect request casts only a spell that is in the granted
\* list, the cast removes it from the list, and no spell is cast twice
\* without a grant in between.
C9_SelfResIsOneShot ==
    [][/\ (IsSelfRes(req') /\ Has(ev', "CastSpell"))
          => /\ req'.guid \in SelfResSpells
             /\ req'.guid \notin SelfResSpells'
             /\ ev' = <<Ev("CastSpell", "", req'.guid, NoLoot)>>
       /\ \A id \in SelfResIds : selfResCasts'[id] <= 1]_vars

\* Spell 9 was cast once and asked for again: the second request does nothing
C9_Witness ==
    /\ IsSelfRes(req)
    /\ req.guid = 9
    /\ selfResCasts[9] = 1
    /\ 9 \notin SelfResSpells
    /\ ev = <<>>

----------------------------------------------------------------------------
(* Properties of item use *)

IsUse(r) == r.op = "UseItem"

\* The request names an item that is at the claimed position, of a type that
\* is used equipped, in a position that is not an equipment slot
UnequippedEquipment(r) ==
    /\ r.pos \in Positions
    /\ inv[r.pos] # 0
    /\ inv[r.pos] = r.guid
    /\ items[r.guid].entry \in {4, 8}
    /\ r.pos[1] # "equipment"

\* The only call made is an item-not-found error
ItemNotFound(events) ==
    /\ Len(events) = 1
    /\ events[1].e = "SendEquipError"
    /\ events[1].code = "EQUIP_ERR_ITEM_NOT_FOUND"

\* No binding change, no aura removal, no cast
NothingUsed(events) ==
    /\ UNCHANGED <<items, m_ownedAuras, m_currentSpells>>
    /\ ~Has(events, "CastItemUseSpell")
    /\ ~Has(events, "OnItemUse")
    /\ ~Has(events, "AddItemAppearance")
    /\ ~Has(events, "RemoveAurasWithInterruptFlags")

\* C10 as stated: every use of an unequipped item of a type that must be
\* equipped is answered with item-not-found, and binds nothing, removes no
\* aura and casts nothing.
C10_UnequippedUseIsItemNotFound ==
    [][(IsUse(req') /\ UnequippedEquipment(req'))
         => ItemNotFound(ev') /\ NothingUsed(ev')]_vars

\* C10 amended: the use binds nothing, removes no aura and casts nothing; it
\* is answered with item-not-found when the session's mover is the player
\* itself, and with nothing when the player controls another unit.
C10_UnequippedUseIsRejected ==
    [][(IsUse(req') /\ UnequippedEquipment(req'))
         => /\ NothingUsed(ev')
            /\ mover = "self" => ItemNotFound(ev')
            /\ mover # "self" => ev' = <<>>]_vars

\* The trinket in the backpack was used by a player moving itself
C10_Witness ==
    /\ IsUse(req)
    /\ UnequippedEquipment(req)
    /\ items[req.guid].entry = 8
    /\ mover = "self"
    /\ ItemNotFound(ev)

\* The request names the item at the claimed position, the player moves
\* itself and is alive, and the item is equipped if its type asks for it
PassesUseChecks(r) ==
    /\ mover = "self"
    /\ r.pos \in Positions
    /\ inv[r.pos] # 0
    /\ inv[r.pos] = r.guid
    /\ items[r.guid].entry \in {4, 8} => r.pos[1] = "equipment"
    /\ alive

\* An error of the arena restriction is among the calls
ArenaError(events) ==
    \E i \in 1..Len(events) :
        events[i].e = "SendEquipError" /\ events[i].code = "EQUIP_ERR_NOT_DURING_ARENA_MATCH"

\* C11: in an arena, the use of a consumable without the exemption flag that
\* passed the existence, identity, equip and usability checks is answered
\* with the arena error alone, in combat or not, and starts no cast; the use
\* of an exempt consumable that is not banned in arenas gets no arena error.
C11_ArenaRestrictsConsumables ==
    [][(IsUse(req') /\ PassesUseChecks(req') /\ inArena)
         => /\ items[req'.guid].entry \in {6, 10}
                 => /\ Len(ev') = 1
                    /\ ArenaError(ev')
                    /\ NothingUsed(ev')
            /\ items[req'.guid].entry = 7 => ~ArenaError(ev')]_vars

\* Food was refused in an arena while the player was in combat
C11_Witness ==
    /\ IsUse(req)
    /\ PassesUseChecks(req)
    /\ items[req.guid].entry = 10
    /\ inArena
    /\ inCombat
    /\ ArenaError(ev)

\* The item is bound to the player
Bound(item) == "SOULBOUND" \in item.flags

\* Every eligibility check of the request passes: those of PassesUseChecks,
\* the arena restrictions and the combat restriction
Eligible(r) ==
    /\ PassesUseChecks(r)
    /\ ~(inArena /\ items[r.guid].entry \in {6, 9, 10})
    /\ ~(inCombat /\ items[r.guid].entry \in {7, 10})

\* The binding policy of the item is on-use, on-acquire or quest
BindsWhenUsed(item) == item.entry \in {6, 8, 9}

\* C12: a use-item request binds the item it names exactly when every
\* eligibility check passed, the item's policy is on-use, on-acquire or quest
\* and the item was unbound, and then the collection tracker is told; a
\* request that is turned down changes no binding, and no request unbinds.
C12_BindingOnlyAfterChecks ==
    [][IsUse(req')
         => /\ \A g \in Guids :
                 /\ Bound(items[g]) => Bound(items'[g])
                 /\ (~Bound(items[g]) /\ Bound(items'[g]))
                      <=> /\ g = req'.guid
                          /\ Eligible(req')
                          /\ BindsWhenUsed(items[g])
                          /\ ~Bound(items[g])
            /\ Has(ev', "AddItemAppearance")
                 <=> (\E g \in Guids : ~Bound(items[g]) /\ Bound(items'[g]))
            /\ Has(ev', "SendEquipError") => items' = items]_vars

\* The equipped trinket was used and is now bound
C12_Witness ==
    /\ IsUse(req)
    /\ req.guid \in Guids
    /\ items[req.guid].entry = 8
    /\ Bound(items[req.guid])
    /\ Has(ev, "AddItemAppearance")

\* Everything but the record of the last request
SessionState ==
    <<playerVars, itemVars, totemVars, castVars, resVars, fightVars, ctrlVars, m_castId>>

\* The last request was dropped: nothing was sent, logged or changed
C13_Dropped == ev' = <<>> /\ UNCHANGED SessionState

\* The object of the request may be used from the saddle
C13_MountedUse(r) == r.pos = <<"go", 2>>

\* C13: while the session's mover is not its own player, use-item,
\* open-item, report-object-use and destroy-summon requests change nothing
\* and send nothing; cast-spell and cancel-channelling requests change
\* nothing and send nothing when the mover is another player; an
\* interact-with-object request has an effect only if the player rides the
\* mover as a vehicle, is mounted, or the object is one used while mounted.
C13_RemoteControlDrops ==
    [][/\ (/\ mover # "self"
           /\ req'.op \in {"UseItem", "OpenItem", "GameObjReportUse", "TotemDestroyed"})
          => C13_Dropped
       /\ (/\ mover = "player2"
           /\ req'.op \in {"CastSpell", "CancelChanneling"})
          => C13_Dropped
       /\ (/\ mover # "self"
           /\ req'.op = "GameObjUse"
           /\ ~C13_Dropped)
          => \/ onVehicle /\ mover = "vehicle"
             \/ mounted
             \/ C13_MountedUse(req')]_vars

\* An object was used on foot through another player, because the object
\* is one used while mounted
C13_Witness ==
    /\ mover = "player2"
    /\ ~mounted
    /\ req.op = "GameObjUse"
    /\ C13_MountedUse(req)
    /\ Has(ev, "GameObject::Use")

IsCast(r) == r.op = "CastSpell"

\* The request made a cast, or acknowledged one
CastStarted(events) == Has(events, "new Spell") \/ Has(events, "SendPacket")

\* The caster of the request is the player: the player moves itself, or
\* rides a vehicle that does not have the spell
CasterIsPlayer(r) == mover = "self" \/ (mover = "vehicle" /\ r.guid # 19)

\* The spells the player has as active spells
KnownSpell(r) == r.guid \in {1, 3, 4, 6, 16, 22, 28}

\* The raid marker spells
RaidMarkerSpell(r) == r.guid \in {24, 25}

\* An aura on the player triggers the spell from the client
GrantedByAura(r) == r.guid = 26 /\ \E a \in m_ownedAuras : a[1] = 14

\* The targeted game object is unlocked by the spell
UnlocksTarget(r) == r.guid = 21 /\ r.pos = <<"go", 1>>

\* The request is let through for the triggering aura alone
ThroughTrigger(r) ==
    CasterIsPlayer(r) /\ ~KnownSpell(r) /\ ~RaidMarkerSpell(r) /\ GrantedByAura(r)

\* C14: a cast-spell request whose caster is a player makes a cast, or
\* acknowledges one, only if the spell is an active spell of the player, a
\* raid marker spell, a spell triggered by a clientside periodic aura of
\* the player, or the spell that unlocks the targeted game object; and the
\* cast it makes is fully triggered exactly when the request is let through
\* for the triggering aura.
C14_KnownOrExempt ==
    [][IsCast(req') =>
        /\ (CasterIsPlayer(req') /\ CastStarted(ev'))
              => \/ KnownSpell(req')
                 \/ RaidMarkerSpell(req')
                 \/ GrantedByAura(req')
                 \/ UnlocksTarget(req')
        /\ \A i \in 1..Len(ev') :
              ev'[i].e \in {"new Spell", "Spell::prepare"}
                => (ev'[i].code = "TRIGGERED_FULL_MASK" <=> ThroughTrigger(req'))]_vars

\* A spell the player does not know was cast for its triggering aura, and
\* the cast is fully triggered
C14_Witness ==
    /\ IsCast(req)
    /\ req.guid = 26
    /\ \E i \in 1..Len(ev) : ev[i].e = "new Spell" /\ ev[i].code = "TRIGGERED_FULL_MASK"

\* The spell of the request is passive once the caster's overrides are
\* applied: spell 6 is passive, and the player's aura 15 turns spell 16 into
\* the passive spell 17
PassiveAfterOverride(r) ==
    \/ r.guid = 6
    \/ r.guid = 16 /\ \E a \in m_ownedAuras : a[1] = 15

\* C15: a cast-spell request makes no cast, sends no prepare
\* acknowledgment and applies no movement update if its spell, after the
\* caster's overrides, is passive, or if the player is possessing a unit.
C15_PassiveOrPossessingIsDropped ==
    [][(IsCast(req') /\ (PassiveAfterOverride(req') \/ isPossessing))
         => /\ ~Has(ev', "new Spell")
            /\ ~Has(ev', "SendPacket")
            /\ ~Has(ev', "Spell::prepare")
            /\ ~Has(ev', "HandleMovementOpcode")
            /\ UNCHANGED <<m_currentSpells, m_castId>>]_vars

\* A known spell that an aura overrides with a passive one was requested
\* with a movement update by a player that possesses nothing, and dropped
C15_Witness ==
    /\ IsCast(req)
    /\ req.guid = 16
    /\ req.cast.MoveUpdate
    /\ mover = "self"
    /\ ~isPossessing
    /\ \E a \in m_ownedAuras : a[1] = 15
    /\ ev = <<>>

IsCancelAura(r) == r.op = "CancelAura"

\* The auras the last step took from the player
RemovedAuras == m_ownedAuras \ m_ownedAuras'

\* C16: a cancel-aura request removes no aura of a spell that cannot be
\* cancelled (spells 2 and 7), removes an aura of a spell that is not
\* channeled (not 1, 2, 3) only if the spell is positive (not 5) and not
\* passive (not 6), and leaves the player's auras as they are when its
\* spell is unknown, not cancelable, negative or passive.
C16_CancelAuraRemovesOnlyCancelable ==
    [][IsCancelAura(req') =>
        /\ m_ownedAuras' \subseteq m_ownedAuras
        /\ \A a \in RemovedAuras :
              /\ a[1] \notin {2, 7}
              /\ a[1] \notin {1, 2, 3} => a[1] \notin {5, 6}
        /\ req'.guid \in {UnknownSpell, 2, 7, 5, 6} => m_ownedAuras' = m_ownedAuras]_vars

\* A request named a passive spell whose aura the player carries; the aura
\* is still there
C16_Witness ==
    /\ IsCancelAura(req)
    /\ req.guid = 6
    /\ req.pos = <<"caster", PlayerGuid>>
    /\ <<6, PlayerGuid>> \in m_ownedAuras

\* The aura types the requests cancel, by request
CancelledType(r) ==
    CASE r.op = "CancelGrowthAura" -> {30, 31, 32, 33}
      [] r.op = "CancelMountAura" -> {34, 35}
      [] r.op = "CancelModSpeedNoControlAuras" -> {36, 37}
      [] OTHER -> {}

IsCancelByType(r) == CancelledType(r) # {}

\* The auras a request for the type takes: those of the type whose spell
\* is not protected (33, 35), not negative (31, 37) and not passive (32)
ToCancel(r) ==
    {a \in m_ownedAuras : a[1] \in CancelledType(r) /\ a[1] \notin {31, 32, 33, 35, 37}}

NamesMover(r) ==
    \/ mover = "self" /\ r.guid = PlayerGuid
    \/ mover = "player2" /\ r.guid = OtherGuid
    \/ mover = "vehicle" /\ r.guid = 3

UnknownSpellCast(r) == IsCast(r) /\ r.guid = UnknownSpell /\ mover # "player2"

\* An open request of a living player that moves itself, for a slot that
\* holds an item
OpensAnItem(r) == IsOpen(r) /\ mover = "self" /\ alive /\ inv[r.pos] # 0

\* The item is neither a container with loot (entries 1, 2, 3) nor wrapped
NotOpenable(r) ==
    /\ OpensAnItem(r)
    /\ items[inv[r.pos]].entry \notin {1, 2, 3}
    /\ "WRAPPED" \notin items[inv[r.pos]].flags

\* The item's lock has no definition (entry 3)
UnknownLock(r) == OpensAnItem(r) /\ items[inv[r.pos]].entry = 3

\* Nothing went to the client: every call was a log entry
OnlyLogged(events) ==
    \A i \in 1..Len(events) : events[i].e \in {"TC_LOG_ERROR", "TC_LOG_INFO"}

\* The client got the equipment error code and nothing else
OnlyEquipError(events, code) ==
    /\ \E i \in 1..Len(events) : events[i].e = "SendEquipError" /\ events[i].code = code
    /\ \A i \in 1..Len(events) :
          \/ events[i].e \in {"TC_LOG_ERROR", "TC_LOG_INFO"}
          \/ events[i].e = "SendEquipError" /\ events[i].code = code

\* C18 as stated: a cast request for an unknown spell, an open request
\* for an item whose lock has no definition and an open request for an item
\* that is neither a container nor wrapped are logged as errors, change
\* nothing, and send the client nothing.
C18_ViolationsAreSilent ==
    [][(UnknownSpellCast(req') \/ UnknownLock(req') \/ NotOpenable(req'))
         => /\ Has(ev', "TC_LOG_ERROR")
            /\ UNCHANGED SessionState
            /\ OnlyLogged(ev')]_vars

\* C18, amended: the three requests are logged as errors and change
\* nothing; the cast request sends the client nothing, the open request
\* for an item whose lock has no definition sends the item-locked error and
\* the open request for an item that cannot be opened sends the
\* client-locked-out error.
C18_ViolationsAreLogged ==
    [][/\ (UnknownSpellCast(req') \/ UnknownLock(req') \/ NotOpenable(req'))
          => Has(ev', "TC_LOG_ERROR") /\ UNCHANGED SessionState
       /\ UnknownSpellCast(req') => OnlyLogged(ev')
       /\ UnknownLock(req') => OnlyEquipError(ev', "EQUIP_ERR_ITEM_LOCKED")
       /\ NotOpenable(req') => OnlyEquipError(ev', "EQUIP_ERR_CLIENT_LOCKED_OUT")]_vars

\* The item whose lock has no definition was opened: logged and answered
\* with the item-locked error
C18_Witness ==
    /\ IsOpen(req)
    /\ inv[req.pos] # 0
    /\ items[inv[req.pos]].entry = 3
    /\ Has(ev, "TC_LOG_ERROR")
    /\ Has(ev, "SendEquipError")

\* The last step rolled, loaded, stored or delivered loot, or issued the
\* lookup of a gift
LootOrLookup ==
    \/ \E i \in 1..Len(ev') :
          ev'[i].e \in {"FillLoot", "LoadStoredLoot", "AddNewStoredLoot", "SendLoot",
                        "SendLootError", "AsyncQuery"}
    \/ items' # items
    \/ storedLoot' # storedLoot
    \/ pending' # pending

\* The item of the request is a lockbox (entries 2 and 3) still locked
StillLocked(r) ==
    /\ items[inv[r.pos]].entry = 2
    /\ "UNLOCKED" \notin items[inv[r.pos]].flags

\* C19: an open-item request rolls, loads or delivers loot, or issues the
\* gift lookup, only if the player is alive, the slot holds an item, the
\* item is a container with loot (entries 1, 2, 3) or wrapped, and a
\* lockbox has a lock with a definition (entry 2, not 3) and is unlocked;
\* a dead player gets the player-dead error and a locked lockbox the
\* item-locked error, both without loot and without lookup.
C19_OpenItemPreconditions ==
    [][IsOpen(req') =>
        /\ LootOrLookup =>
              /\ alive
              /\ inv[req'.pos] # 0
              /\ \/ items[inv[req'.pos]].entry \in {1, 2, 3}
                 \/ "WRAPPED" \in items[inv[req'.pos]].flags
              /\ items[inv[req'.pos]].entry # 3
              /\ ~StillLocked(req')
        /\ (mover = "self" /\ ~alive) =>
              /\ OnlyEquipError(ev', "EQUIP_ERR_PLAYER_DEAD")
              /\ ~LootOrLookup
        /\ (OpensAnItem(req') /\ StillLocked(req')) =>
              /\ OnlyEquipError(ev', "EQUIP_ERR_ITEM_LOCKED")
              /\ ~LootOrLookup]_vars

\* A living player opened a locked lockbox and got the item-locked error
C19_Witness ==
    /\ IsOpen(req)
    /\ alive
    /\ inv[req.pos] # 0
    /\ StillLocked(req)
    /\ Has(ev, "SendEquipError")
    /\ ~Has(ev, "TC_LOG_ERROR")

\* The unit the request targets, 0 for none
TargetedUnit(r) == IF r.pos[1] = "unit" THEN r.pos[2] ELSE 0

\* The request repeats the player's running auto-repeat cast (spell 22) on
\* the same target
RepeatsAutoRepeat(r) ==
    /\ r.guid = 22
    /\ m_currentSpells["self"]["CURRENT_AUTOREPEAT_SPELL"] # NoSpell
    /\ m_currentSpells["self"]["CURRENT_AUTOREPEAT_SPELL"].Id = 22
    /\ m_currentSpells["self"]["CURRENT_AUTOREPEAT_SPELL"].target = TargetedUnit(r)

\* The request passes every test of the handler: the session moves no
\* other player, the spell has a definition, the vehicle has the spell
\* (19) or the player rides it and the spell may be cast from it (4, 16, 22,
\* 23), a player caster knows the spell or is exempt, the spell is not
\* passive, the player possesses nothing, and the request does not repeat
\* the running auto-repeat cast
PassesValidation(r) ==
    /\ mover # "player2"
    /\ r.guid # UnknownSpell
    /\ \/ mover = "vehicle" /\ r.guid = 19
       \/ /\ mover = "self" \/ (onVehicle /\ r.guid \in {4, 16, 22, 23})
          /\ KnownSpell(r) \/ RaidMarkerSpell(r) \/ GrantedByAura(r) \/ UnlocksTarget(r)
          /\ ~PassiveAfterOverride(r)
          /\ ~RepeatsAutoRepeat(r)
    /\ ~isPossessing

\* The names of the calls, in their order
Calls(events) == [i \in 1..Len(events) |-> events[i].e]

\* C20: a cast-spell request that passes validation applies the movement
\* update it carries, if any, then creates the cast, then sends one
\* prepare acknowledgment with the client's cast id and the cast id the
\* server gave to the cast, then starts the cast, in this order and with
\* nothing else; a request that is rejected sends no prepare
\* acknowledgment.
C20_CastEventOrder ==
    [][IsCast(req') =>
         IF PassesValidation(req')
         THEN /\ Calls(ev') =
                    (IF req'.cast.MoveUpdate THEN <<"HandleMovementOpcode">> ELSE <<>>)
                    \o <<"new Spell", "SendPacket", "Spell::prepare">>
              /\ LET n == Len(ev') IN
                    /\ ev'[n - 1].code = "SMSG_SPELL_PREPARE"
                    /\ ev'[n - 1].cast.ClientCastID = req'.cast.CastID
                    /\ ev'[n - 1].cast.ServerCastID = ev'[n - 2].cast.ServerCastID
                    /\ ev'[n - 1].cast.ServerCastID = 100 + m_castId'
                    /\ m_castId' = m_castId + 1
                    /\ ev'[n].cast.ServerCastID = ev'[n - 2].cast.ServerCastID
         ELSE ~Has(ev', "SendPacket") /\ ~Has(ev', "new Spell")]_vars

\* A cast request with a movement update and the client's cast id 2 was
\* acknowledged between the creation and the start of the cast
C20_Witness ==
    /\ IsCast(req)
    /\ req.cast.MoveUpdate
    /\ req.cast.CastID = 2
    /\ Len(ev) = 4
    /\ ev[1].e = "HandleMovementOpcode"
    /\ ev[3].e = "SendPacket"
    /\ ev[3].cast.ClientCastID = 2
    /\ ev[4].e = "Spell::prepare"

\* A request for the auto-repeat spell 22 that passes every other test:
\* the player casts it, for itself or from the vehicle it rides, and
\* possesses nothing
AutoRepeatRequest(r) ==
    /\ IsCast(r)
    /\ r.guid = 22
    /\ mover = "self" \/ (mover = "vehicle" /\ onVehicle)
    /\ ~isPossessing

\* C21: a cast request for an auto-repeat spell makes no cast, sends no
\* prepare acknowledgment and leaves the running casts as they are exactly
\* when the caster's running auto-repeat cast is of the same spell and on
\* the same unit target; when the spell or the target differs, a cast is
\* created and acknowledged.
C21_AutoRepeatSuppressedIffSame ==
    [][AutoRepeatRequest(req') =>
         IF RepeatsAutoRepeat(req')
         THEN /\ ev' = <<>>
              /\ UNCHANGED <<m_currentSpells, m_castId>>
         ELSE /\ Has(ev', "new Spell")
              /\ Has(ev', "SendPacket")
              /\ Has(ev', "Spell::prepare")]_vars

\* The auto-repeat spell was requested on another target than the one of
\* the running auto-repeat cast of the same spell, and a cast was created
C21_Witness ==
    /\ AutoRepeatRequest(req)
    /\ req.pos = <<"unit", 3>>
    /\ m_castId = 1
    /\ Has(ev, "new Spell")
    /\ m_currentSpells["self"]["CURRENT_AUTOREPEAT_SPELL"] = MkSpell(22, OtherGuid)

\* What a unit casts in place of the spell: a player casts the buff 4 for
\* spell 28; for spell 16 the vehicle casts 18 and a player under aura 15
\* casts 17
OverrideFor(unit, id) ==
    CASE id = 28 -> IF unit = "vehicle" THEN 28 ELSE 4
      [] id = 16 -> IF unit = "vehicle" THEN 18
                    ELSE IF \E a \in m_ownedAuras : a[1] = 15 THEN 17
                    ELSE 16
      [] OTHER -> id

\* The rank of the spell for the unit the request targets: the buff 4 has
\* the rank 20 for the low target 3, and no rank for the target 2
RankFor(id, r) == IF id = 4 /\ TargetedUnit(r) = 3 THEN 20 ELSE id

\* The player casts in place of the vehicle it moves: the vehicle does not
\* have the spell (19), the player rides it, and the spell may be cast by
\* a passenger (4, 16, 22, 23)
Redirects(r) ==
    /\ mover = "vehicle"
    /\ r.guid # 19
    /\ onVehicle
    /\ r.guid \in {4, 16, 22, 23}

\* The caster of a cast is the mover, or the player under redirection
CasterOf(r) == IF Redirects(r) THEN "self" ELSE mover

\* C22 as stated: the cast a request creates is of the spell found by the
\* override for the unit the session moves, then the rank for the unit
\* target, and only then the caster is redirected from the vehicle to the
\* player, which happens only under the conditions of redirection.
C22_OverrideThenRankThenRedirect ==
    [][IsCast(req') =>
         \A i \in 1..Len(ev') :
             ev'[i].e = "new Spell"
               => /\ ev'[i].guid = RankFor(OverrideFor(mover, req'.guid), req')
                  /\ ev'[i].cast.caster = CasterOf(req')]_vars

\* C22, amended: the caster is redirected from the vehicle to the player
\* first, and only under the conditions of redirection; the cast is of
\* the spell found by the override for that caster, then the rank for the
\* unit target, the spell itself when it has no rank for the target.
C22_RedirectThenOverrideThenRank ==
    [][IsCast(req') =>
         \A i \in 1..Len(ev') :
             ev'[i].e = "new Spell"
               => /\ ev'[i].guid = RankFor(OverrideFor(CasterOf(req'), req'.guid), req')
                  /\ ev'[i].cast.caster = CasterOf(req')]_vars

\* The player cast spell 16 from the vehicle it rides: redirected, it casts
\* its own spell 16, not the vehicle's 18
C22_Witness ==
    /\ IsCast(req)
    /\ req.guid = 16
    /\ mover = "vehicle"
    /\ onVehicle
    /\ \E i \in 1..Len(ev) :
          ev[i].e = "new Spell" /\ ev[i].guid = 16 /\ ev[i].cast.caster = "self"

\* The last step rewrote what the item is: its entry, flags or gift creator
Rewritten(g) ==
    \/ items'[g].entry # items[g].entry
    \/ items'[g].flags # items[g].flags
    \/ items'[g].giftCreator # items[g].giftCreator

\* The last step committed a transaction that deletes the gift record of
\* the item
DeletionIssued(g) ==
    /\ Len(dbQueue') = Len(dbQueue) + 1
    /\ \E k \in 1..Len(dbQueue'[Len(dbQueue')]) :
          dbQueue'[Len(dbQueue')][k] = Stmt("CHAR_DEL_GIFT", g)

WrappedNow(g) == "WRAPPED" \in items[g].flags

\* C23: however many open-item requests are made on a wrapped item and
\* however their lookups complete among each other and among moves of the
\* item, the item is unwrapped at most once and the deletion of its gift
\* record is issued at most once, when the restored flags do not say
\* wrapped, and every later completion for the item does nothing. Step
\* by step: an item is rewritten, and the deletion of its record issued,
\* only by a completion for this item while it is wrapped; a rewrite with
\* flags that do not say wrapped leaves it not wrapped; an item that is not
\* wrapped never becomes wrapped; and a completion for an item that is not
\* wrapped changes nothing.
C23_UnwrappedAtMostOnce ==
    [][\A g \in Guids :
         /\ (Rewritten(g) \/ DeletionIssued(g))
               => IsCallback(req') /\ req'.guid = g /\ WrappedNow(g)
         /\ (Rewritten(g) /\ "WRAPPED" \notin req'.result.flags)
               => "WRAPPED" \notin items'[g].flags
         /\ ~WrappedNow(g) => "WRAPPED" \notin items'[g].flags
         /\ (IsCallback(req') /\ req'.guid = g /\ ~WrappedNow(g))
               => /\ ev' = <<>>
                  /\ UNCHANGED <<inv, items, gifts, storedLoot, dbQueue>>]_vars

\* A second completion for an item, at the position it is in, with the
\* gift record found: the item has the restored entry already and the
\* completion did nothing
C23_Witness ==
    /\ IsCallback(req)
    /\ req.result.found
    /\ "WRAPPED" \notin req.result.flags
    /\ inv[req.pos] = req.guid
    /\ items[req.guid].entry = req.result.entry
    /\ "WRAPPED" \notin items[req.guid].flags
    /\ ev = <<>>

IsPetCancel(r) == r.op = "PetCancelAura"

\* The guid the request names as its pet
PetOf(r) == r.pos[2]

\* The guid is of a creature in the world that is the player's guardian
\* pet or the unit the player has charmed
Commands(r) ==
    /\ PetOf(r) \in inWorld
    /\ PetOf(r) = pets.GuardianPet \/ PetOf(r) = pets.Charmed

\* C24: a pet-cancel-aura request takes the aura of its spell from the pet
\* exactly when the spell has a definition, the guid is of a creature in
\* the world that is alive, and the creature is the player's guardian pet
\* or charmed unit, and changes no aura otherwise; a request for a spell
\* without definition is logged as unknown, and a request for a dead pet is
\* answered with the dead-pet feedback.
C24_PetCancelAura ==
    [][IsPetCancel(req') =>
        /\ IF req'.guid # UnknownSpell /\ Commands(req') /\ pets.IsAlive[PetOf(req')]
           THEN pets' = [pets EXCEPT !.m_ownedAuras[PetOf(req')] = @ \ {req'.guid}]
           ELSE pets' = pets
        /\ req'.guid = UnknownSpell
              => \E i \in 1..Len(ev') :
                     ev'[i].e = "TC_LOG_ERROR" /\ ev'[i].code = "unknown PET spell id"
        /\ (req'.guid # UnknownSpell /\ Commands(req') /\ ~pets.IsAlive[PetOf(req')])
              => Has(ev', "SendPetActionFeedback")]_vars

====
